---- MODULE Spec2Model ----
(***************************************************************************)
(* Model of faq-generator-cosmetics.py: the quality scorer                 *)
(* (validar_calidad_faqs_mejorada), the retry controller                   *)
(* (generar_faqs_con_reintentos_mejorado) and the batch loop               *)
(* (procesar_productos_premium_mejorado), with the product analysis, the   *)
(* enrichment of short descriptions, the prompt and the selection of the   *)
(* question categories.                                                    *)
(*                                                                         *)
(* A Python str is a sequence of one-character strings, so that len, in,   *)
(* lower, split, startswith, endswith, count and the regular expression    *)
(* of the scorer are computed on characters as the code computes them.     *)
(* A float mean total/5 is kept as the integer total (five times the       *)
(* mean): every comparison of means is the same comparison of totals.      *)
(***************************************************************************)
EXTENDS Integers, Sequences, FiniteSets, TLC

VARIABLES
    df,                 \* the catalog read from the CSV: the product records, in row order
    limite,             \* the limit given to procesar_productos_premium_mejorado
    repertorio,         \* the responses the generation API may give in this run
    veredictos,         \* what the scorer returns for each JSON object of the run
    pc,                 \* position in the batch, the controller or the scorer
    idx,                \* procesar_productos_premium_mejorado: loop index
    intento,            \* generar_faqs_con_reintentos_mejorado: loop index
    llamadas,           \* number of client.chat.completions.create calls for this product
    mejor_resultado,    \* None or {'faqs', 'metricas', 'intento'}
    mejor_puntuacion,   \* five times the best mean so far
    historial_intentos, \* list of per-attempt records
    ultimo,             \* the locals of the last attempt: its verdict, or its exception
    devuelto,           \* return value of the controller for the current product
    resultados,         \* list of result records
    errores,            \* list of error records
    entrada,            \* scorer on its own: the FAQ set given to the scorer
    veredicto,          \* scorer on its own: what the scorer returned
    confirmacion,       \* what input() returned at the confirmation, << >> before it
    producto_actual,    \* the dict producto of the product in the controller
    analisis,           \* the Feature Profile of that product
    registro,           \* the generation requests sent for the product under way, with the answers
    archivos,           \* the files written by the run
    retorno,            \* what procesar_productos_premium_mejorado returned, SinRetorno before
    categorias          \* category selection on its own: the list returned

vars == << df, limite, repertorio, veredictos, pc, idx, intento, llamadas, mejor_resultado,
           mejor_puntuacion, historial_intentos, ultimo, devuelto, resultados,
           errores, entrada, veredicto, confirmacion, producto_actual, analisis,
           registro, archivos, retorno, categorias >>

\* Python's None, next to the records it is compared with
None == [tipo |-> "None"]

(***************************************************************************)
(* Python str operations                                                   *)
(***************************************************************************)
Mayusculas == <<"A","B","C","D","E","F","G","H","I","J","K","L","M","N","O","P","Q","R","S","T","U","V","W","X","Y","Z","Á","É","Í","Ó","Ú","Ñ">>
Minusculas == <<"a","b","c","d","e","f","g","h","i","j","k","l","m","n","o","p","q","r","s","t","u","v","w","x","y","z","á","é","í","ó","ú","ñ">>

\* the upper-case characters, each mapped to its lower-case character
RECURSIVE TablaLower(_)
TablaLower(n) ==
    IF n = 0 THEN [c \in {} |-> ""]
    ELSE TablaLower(n - 1) @@ (Mayusculas[n] :> Minusculas[n])
EnMinuscula == TablaLower(Len(Mayusculas))
ConMinuscula == DOMAIN EnMinuscula

\* str.lower() on one character
LowerChar(c) == IF c \in ConMinuscula THEN EnMinuscula[c] ELSE c

\* s.lower()
Lower(s) == SubSeq([k \in 1..Len(s) |-> LowerChar(s[k])], 1, Len(s))

\* sub occurs in s at position k
EnPosicion(sub, s, k) ==
    /\ k + Len(sub) - 1 <= Len(s)
    /\ \A j \in 1..Len(sub) : s[k + j - 1] = sub[j]

\* sub in s
Contiene(sub, s) == \E k \in 1..(Len(s) + 1) : EnPosicion(sub, s, k)

\* any(palabra in s for palabra in lista)
ContieneAlguna(lista, s) == \E n \in 1..Len(lista) : Contiene(lista[n], s)

\* s.startswith(c), s.endswith(c) for a one-character c
StartsWith(s, c) == Len(s) >= 1 /\ s[1] = c
EndsWith(s, c) == Len(s) >= 1 /\ s[Len(s)] = c

EsEspacio(c) == c \in {" ", "\n", "\t"}
EsDigito(c) == c \in {"0","1","2","3","4","5","6","7","8","9"}

\* len(s.split()): the number of maximal runs of non-whitespace characters
NumPalabras(s) ==
    Cardinality({k \in 1..Len(s) : ~EsEspacio(s[k]) /\ (k = 1 \/ EsEspacio(s[k - 1]))})

\* s.count(c)
Count(s, c) == Cardinality({k \in 1..Len(s) : s[k] = c})

(***************************************************************************)
(* criterios_calidad and the word lists of the scorer                      *)
(***************************************************************************)
longitud_minima_respuesta == 150
longitud_maxima_respuesta == 350

palabras_prohibidas ==
    << <<"c","o","s","a">>,
       <<"a","l","g","o">>,
       <<"e","t","c">>,
       <<"e","t","c","é","t","e","r","a">> >>

palabras_genericas ==
    << <<"p","r","o","d","u","c","t","o">>,
       <<"e","s","t","o">>,
       <<"e","s","o">>,
       <<"c","o","s","a">> >>

palabras_tecnicas ==
    << <<"d","e","r","m","a","t","ó","l","o","g">>,
       <<"a","c","t","i","v","o","s">>,
       <<"c","o","n","c","e","n","t","r">>,
       <<"f","ó","r","m","u","l","a">>,
       <<"i","n","g","r","e","d","i","e","n","t","e","s">>,
       <<"a","p","l","i","c","a","c","i","ó","n">>,
       <<"a","b","s","o","r","c","i","ó","n">>,
       <<"p","e","n","e","t","r","a","c","i","ó","n">> >>

instrucciones ==
    << <<"a","p","l","i","c","a">>,
       <<"u","s","a">>,
       <<"e","s","p","e","r","a">>,
       <<"c","o","m","b","i","n","a">>,
       <<"e","v","i","t","a">>,
       <<"r","e","c","o","m","e","n","d","a","m","o","s">> >>

beneficios ==
    << <<"r","e","d","u","c","e">>,
       <<"m","e","j","o","r","a">>,
       <<"a","u","m","e","n","t","a">>,
       <<"e","s","t","i","m","u","l","a">>,
       <<"p","r","o","t","e","g","e">>,
       <<"h","i","d","r","a","t","a">>,
       <<"n","u","t","r","e">> >>

\* The alternatives of the regular expression's group. A trailing "s?" is
\* optional, so re.search finds "días?" exactly where it finds "día".
unidades ==
    << <<"m","g">>,
       <<"m","l">>,
       <<"%">>,
       <<"d","í","a">>,
       <<"s","e","m","a","n","a">>,
       <<"m","e","s","e">>,
       <<"a","ñ","o">>,
       <<"v","e","c","e">>,
       <<"m","i","n","u","t","o">>,
       <<"h","o","r","a">> >>

\* re.search(r'\d+\s*(mg|ml|%|dias?|...)', s): a digit, then whitespace
\* characters only, then one of the units
TieneDatosEspecificos(s) ==
    \E d \in 1..Len(s) :
        /\ EsDigito(s[d])
        /\ \E u \in (d + 1)..Len(s) :
              /\ \A w \in (d + 1)..(u - 1) : EsEspacio(s[w])
              /\ \E n \in 1..Len(unidades) : EnPosicion(unidades[n], s, u)
(***************************************************************************)
(* validar_calidad_faqs_mejorada                                           *)
(*                                                                         *)
(* A parsed FAQ set is a function from a subset of 1..5 (the keys faq1 to  *)
(* faq5 that are present) to pairs; a pair is a function from a subset of  *)
(* {"pregunta", "respuesta"} to texts.                                     *)
(***************************************************************************)
\* d.get(k, def)
Get(d, k, def) == IF k \in DOMAIN d THEN d[k] ELSE def

\* the empty dict {} and the empty str ''
DictVacio == [k \in {} |-> <<>>]
StrVacio == <<>>

\* a format test that looks for "?" at both ends
MalFormateadaAscii(pregunta) == ~StartsWith(pregunta, "?") \/ ~EndsWith(pregunta, "?")

\* not pregunta.startswith('¿') or not pregunta.endswith('?')
MalFormateada(pregunta) == ~StartsWith(pregunta, "¿") \/ ~EndsWith(pregunta, "?")

PuntosFormato(pregunta) == IF MalFormateada(pregunta) THEN 0 ELSE 1

\* the word-count axis, for palabras_pregunta = n
PuntosLongitudPregunta(n) ==
    IF n < 5 THEN 0
    ELSE IF 8 <= n /\ n <= 15 THEN 2
    ELSE 1

PuntosEspecificidad(pregunta) ==
    IF ~ContieneAlguna(palabras_genericas, Lower(pregunta)) THEN 1 ELSE 0

\* an answer-length axis with no point above 300 characters
PuntosLongitudRespuestaSinResto(n) ==
    IF n < longitud_minima_respuesta THEN 0
    ELSE IF 200 <= n /\ n <= 300 THEN 3
    ELSE IF longitud_minima_respuesta <= n /\ n < 200 THEN 2
    ELSE 0

\* the answer-length axis, for longitud_respuesta = n
PuntosLongitudRespuesta(n) ==
    IF n < longitud_minima_respuesta THEN 0
    ELSE IF 200 <= n /\ n <= 300 THEN 3
    ELSE IF longitud_minima_respuesta <= n /\ n < 200 THEN 2
    ELSE 1

\* the banned words found in the answer, in the order of the list; baja is
\* respuesta.lower()
ProhibidasEn(baja) ==
    LET Esta(palabra) == Contiene(Lower(palabra), baja)
    IN  SelectSeq(palabras_prohibidas, Esta)

\* a scorer that takes one point off however many banned words it finds
PuntosProhibidasUnaVez(vagas) == IF Len(vagas) > 0 THEN 0 - 1 ELSE 0

\* puntuacion_faq -= 1 for each banned word found
PuntosProhibidas(vagas) == 0 - Len(vagas)

\* the content bonuses; baja is respuesta.lower()
TieneTecnicas(baja) == ContieneAlguna(palabras_tecnicas, baja)
TieneInstrucciones(baja) == ContieneAlguna(instrucciones, baja)
TieneBeneficios(baja) == ContieneAlguna(beneficios, baja)
PuntosDatos(tiene_datos) == IF tiene_datos THEN 2 ELSE 0
PuntosTecnicas(tiene_tecnicas) == IF tiene_tecnicas THEN 1 ELSE 0
PuntosInstrucciones(tiene_instrucciones) == IF tiene_instrucciones THEN 1 ELSE 0
PuntosBeneficios(tiene_beneficios) == IF tiene_beneficios THEN 1 ELSE 0

\* respuesta.count('.') + respuesta.count('!') + respuesta.count('?')
NumOraciones(respuesta) == Count(respuesta, ".") + Count(respuesta, "!") + Count(respuesta, "?")
PuntosOraciones(respuesta) == IF NumOraciones(respuesta) >= 3 THEN 1 ELSE 0

\* the entries appended to errores for pair i, in the order of the code
ErroresFAQ(i, pregunta, palabras, longitud, vagas) ==
    (IF MalFormateada(pregunta)
     THEN << [faq |-> i, error |-> "pregunta_mal_formateada"] >> ELSE << >>)
    \o (IF palabras < 5
        THEN << [faq |-> i, error |-> "pregunta_demasiado_corta", palabras |-> palabras] >>
        ELSE << >>)
    \o (IF longitud < longitud_minima_respuesta
        THEN << [faq |-> i, error |-> "respuesta_muy_corta", chars |-> longitud] >>
        ELSE << >>)
    \o (IF longitud > longitud_maxima_respuesta
        THEN << [faq |-> i, error |-> "respuesta_muy_larga", chars |-> longitud] >>
        ELSE << >>)
    \o SubSeq([n \in 1..Len(vagas) |->
                  [faq |-> i, error |-> "palabra_vaga", palabra |-> vagas[n]]],
              1, Len(vagas))

\* one iteration of the loop over range(1, 6): puntuaciones[f'faq{i}'] and
\* the violations of the pair
ValidarFAQ(i, faqs) ==
    LET faq == Get(faqs, i, DictVacio)
        pregunta == Get(faq, "pregunta", StrVacio)
        respuesta == Get(faq, "respuesta", StrVacio)
        palabras_pregunta == NumPalabras(pregunta)
        longitud_respuesta == Len(respuesta)
        baja == Lower(respuesta)
        vagas == ProhibidasEn(baja)
        tiene_datos_especificos == TieneDatosEspecificos(baja)
        tiene_palabras_tecnicas == TieneTecnicas(baja)
        tiene_instrucciones == TieneInstrucciones(baja)
        tiene_beneficios == TieneBeneficios(baja)
    IN  [ detalle |->
              [ puntuacion |->
                    PuntosFormato(pregunta)
                    + PuntosLongitudPregunta(palabras_pregunta)
                    + PuntosEspecificidad(pregunta)
                    + PuntosLongitudRespuesta(longitud_respuesta)
                    + PuntosProhibidas(vagas)
                    + PuntosDatos(tiene_datos_especificos)
                    + PuntosTecnicas(tiene_palabras_tecnicas)
                    + PuntosInstrucciones(tiene_instrucciones)
                    + PuntosBeneficios(tiene_beneficios)
                    + PuntosOraciones(respuesta),
                longitud_pregunta |-> palabras_pregunta,
                longitud_respuesta |-> longitud_respuesta,
                tiene_datos |-> tiene_datos_especificos,
                tiene_tecnicas |-> tiene_palabras_tecnicas,
                tiene_instrucciones |-> tiene_instrucciones,
                tiene_beneficios |-> tiene_beneficios ],
          errores |-> ErroresFAQ(i, pregunta, palabras_pregunta, longitud_respuesta, vagas) ]

\* tiers whose thresholds are exclusive
CalidadGeneralEstricta(total) ==
    IF total > 8 * 5 THEN "EXCELENTE"
    ELSE IF total > 6 * 5 THEN "BUENA"
    ELSE IF total > 4 * 5 THEN "ACEPTABLE"
    ELSE "INSUFICIENTE"

\* calidad_general, for puntuacion_promedio = total / 5
CalidadGeneral(total) ==
    IF total >= 8 * 5 THEN "EXCELENTE"
    ELSE IF total >= 6 * 5 THEN "BUENA"
    ELSE IF total >= 4 * 5 THEN "ACEPTABLE"
    ELSE "INSUFICIENTE"

\* a verdict that looks at the mean only
EsValidoSoloMedia(errs, total) == total >= 5 * 5

\* es_valido = len(errores) == 0 and puntuacion_promedio >= 5
EsValido(errs, total) == Len(errs) = 0 /\ total >= 5 * 5

\* (es_valido, errores, metricas); puntuacion_promedio is puntuacion_total / 5
validar_calidad_faqs_mejorada(faqs) ==
    LET det == << ValidarFAQ(1, faqs), ValidarFAQ(2, faqs), ValidarFAQ(3, faqs),
                  ValidarFAQ(4, faqs), ValidarFAQ(5, faqs) >>
        total == det[1].detalle.puntuacion + det[2].detalle.puntuacion
                 + det[3].detalle.puntuacion + det[4].detalle.puntuacion
                 + det[5].detalle.puntuacion
        errs == det[1].errores \o det[2].errores \o det[3].errores
                \o det[4].errores \o det[5].errores
    IN  [ es_valido |-> EsValido(errs, total),
          errores |-> errs,
          puntuacion_total |-> total,
          calidad_general |-> CalidadGeneral(total),
          detalle_faqs |-> << det[1].detalle, det[2].detalle, det[3].detalle,
                              det[4].detalle, det[5].detalle >> ]
(***************************************************************************)
(* The texts of a run. A generated text is held in the state by its        *)
(* composition (which question, which sentences, which vague phrase, how   *)
(* many characters); TextoPregunta and TextoRespuesta give its characters. *)
(***************************************************************************)
P_optima == <<"¿","C","u","á","n","t","a","s"," ","g","o","t","a","s"," ","d","e","b","o"," ","a","p","l","i","c","a","r"," ","c","a","d","a"," ","n","o","c","h","e"," ","s","o","b","r","e"," ","e","l"," ","r","o","s","t","r","o","?">>
P_media == <<"¿","C","u","á","n","t","a","s"," ","g","o","t","a","s"," ","d","e","b","o"," ","a","p","l","i","c","a","r"," ","c","a","d","a"," ","n","o","c","h","e","?">>
P_generica == <<"¿","E","s","t","e"," ","p","r","o","d","u","c","t","o"," ","s","i","r","v","e"," ","p","a","r","a"," ","l","a"," ","p","i","e","l"," ","s","e","n","s","i","b","l","e"," ","o"," ","s","e","c","a","?">>
P_corta == <<"¿","P","r","o","d","u","c","t","o","?">>
P_mal == <<"Q","u","e"," ","e","s"," ","e","s","t","o">>
R_rica == <<"A","p","l","i","c","a"," ","2"," ","g","o","t","a","s"," ","c","a","d","a"," ","n","o","c","h","e","."," ","M","e","j","o","r","a"," ","l","a"," ","f","i","r","m","e","z","a"," ","u","n"," ","2","0","%"," ","e","n"," ","4"," ","s","e","m","a","n","a","s","."," ","L","a"," ","f","ó","r","m","u","l","a"," ","c","o","n","c","e","n","t","r","a"," ","a","c","t","i","v","o","s",".">>
R_media == <<"A","p","l","i","c","a"," ","2"," ","g","o","t","a","s"," ","c","a","d","a"," ","n","o","c","h","e","."," ","M","e","j","o","r","a"," ","l","a"," ","f","i","r","m","e","z","a"," ","u","n"," ","2","0","%"," ","c","o","n"," ","e","l"," ","t","i","e","m","p","o",".">>
R_simple == <<"S","e"," ","e","x","t","i","e","n","d","e"," ","s","o","b","r","e"," ","l","a"," ","p","i","e","l"," ","l","i","m","p","i","a"," ","y"," ","s","e","c","a",".">>
P_generica_breve == <<"¿","E","s","t","e"," ","p","r","o","d","u","c","t","o"," ","s","i","r","v","e"," ","p","a","r","a"," ","t","o","d","o","?">>
R_minima == <<"A","p","l","i","c","a"," ","2"," ","g","o","t","a","s","."," ","M","e","j","o","r","a"," ","u","n"," ","2","0","%","."," ","C","a","d","a"," ","n","o","c","h","e",".">>
V_algo == <<"S","i","r","v","e"," ","p","a","r","a"," ","A","L","G","O"," ">>
V_cosa == <<"E","s"," ","o","t","r","a"," ","c","o","s","a"," ">>
V_etc == <<"P","i","e","l",","," ","c","u","e","l","l","o",","," ","e","t","c"," ">>
V_etcetera == <<"P","i","e","l",","," ","c","u","e","l","l","o",","," ","e","t","c","é","t","e","r","a"," ">>

Ausente == "ausente"

\* n filler characters, and s filled (or cut) to n characters
Relleno(n) == SubSeq([k \in 1..n |-> "x"], 1, n)
Hasta(s, n) == IF Len(s) >= n THEN SubSeq(s, 1, n) ELSE s \o Relleno(n - Len(s))

TextoPregunta(nombre) ==
    CASE nombre = "optima" -> P_optima
      [] nombre = "media" -> P_media
      [] nombre = "generica" -> P_generica
      [] nombre = "generica_breve" -> P_generica_breve
      [] nombre = "corta" -> P_corta
      [] nombre = "mal" -> P_mal

TextoBase(nombre) ==
    CASE nombre = "rica" -> R_rica
      [] nombre = "media" -> R_media
      [] nombre = "minima" -> R_minima
      [] nombre = "simple" -> R_simple

TextoVaga(nombre) ==
    CASE nombre = "ninguna" -> << >>
      [] nombre = "algo" -> V_algo
      [] nombre = "cosa" -> V_cosa
      [] nombre = "etc" -> V_etc
      [] nombre = "etcetera" -> V_etcetera
      [] nombre = "algo_cosa" -> V_algo \o V_cosa

\* the answer of a pair: the vague phrase, the sentences, filled to d.largo
TextoRespuesta(d) == Hasta(TextoVaga(d.vaga) \o TextoBase(d.base), d.largo)

\* one pair of the JSON object: a key whose composition is Ausente is missing
ParDe(d) ==
    IF d.p # Ausente /\ d.base # Ausente
    THEN [pregunta |-> TextoPregunta(d.p), respuesta |-> TextoRespuesta(d)]
    ELSE IF d.p # Ausente THEN [pregunta |-> TextoPregunta(d.p)]
    ELSE IF d.base # Ausente THEN [respuesta |-> TextoRespuesta(d)]
    ELSE DictVacio

\* the keys faq1..faq_n of the JSON object: faq_i is missing when c[i].clave
\* is FALSE
RECURSIVE FaqsHasta(_, _)
FaqsHasta(c, n) ==
    IF n = 0 THEN DictVacio
    ELSE IF c[n].clave THEN FaqsHasta(c, n - 1) @@ (n :> ParDe(c[n]))
    ELSE FaqsHasta(c, n - 1)

\* the JSON object
FaqsDe(c) == FaqsHasta(c, 5)

Par(p, base, vaga, largo) ==
    [clave |-> TRUE, p |-> p, base |-> base, vaga |-> vaga, largo |-> largo]
SinClave == [clave |-> FALSE, p |-> Ausente, base |-> Ausente, vaga |-> "ninguna", largo |-> 0]
(***************************************************************************)
(* The generation API: what client.chat.completions.create does on one     *)
(* call. It raises (tipo "error_api") or returns a text: an optional       *)
(* opening fence ("fence_json" is three backticks and json, "fence" three  *)
(* backticks), a body and an optional closing fence. The body is not       *)
(* JSON ("invalido"), is a JSON list ("lista"), or is a JSON object whose  *)
(* keys and pairs are given by pares.                                      *)
(***************************************************************************)
max_intentos == 3

ErrorAPI == [tipo |-> "error_api", prefijo |-> "", sufijo |-> "", json |-> "", pares |-> << >>]
Texto(prefijo, json, pares, sufijo) ==
    [tipo |-> "texto", prefijo |-> prefijo, sufijo |-> sufijo, json |-> json, pares |-> pares]

Cinco(d) == << d, d, d, d, d >>
Cuatro(d, e) == << d, d, d, d, e >>

P_excelente == Par("optima", "rica", "ninguna", 250)
D_excelente == Cinco(P_excelente)
D_buena == Cinco(Par("media", "simple", "ninguna", 250))
D_aceptable == Cinco(Par("media", "simple", "ninguna", 150))
D_sin_errores_bajo == Cinco(Par("generica", "simple", "ninguna", 320))
D_larga == Cuatro(P_excelente, Par("optima", "rica", "ninguna", 351))
D_vaga == Cuatro(P_excelente, Par("optima", "rica", "algo", 250))
D_cero == Cinco(Par("mal", "simple", "ninguna", 120))
D_negativo == Cinco(Par("mal", "simple", "algo_cosa", 120))
D_sin_clave == Cuatro(P_excelente, SinClave)
D_sin_pregunta == Cuatro(P_excelente, Par(Ausente, "rica", "ninguna", 250))
D_sin_respuesta == Cuatro(P_excelente, Par("optima", Ausente, "ninguna", 0))

\* every JSON object some response carries
Documentos ==
    << D_excelente, D_buena, D_aceptable, D_sin_errores_bajo, D_larga, D_vaga,
       D_cero, D_negativo, D_sin_clave, D_sin_pregunta, D_sin_respuesta >>

\* the responses of a run of the retry controller on one product
RespuestasControl ==
    { ErrorAPI,
      Texto("", "invalido", << >>, ""),
      Texto("", "lista", << >>, ""),
      Texto("fence_json", "objeto", D_excelente, "fence"),
      Texto("fence", "objeto", D_excelente, "fence") }
    \cup { Texto("", "objeto", Documentos[n], "") : n \in 1..Len(Documentos) }

\* the responses of a run of the batch
RespuestasLote ==
    { ErrorAPI,
      Texto("", "objeto", D_buena, ""),
      Texto("", "objeto", D_larga, ""),
      Texto("", "objeto", D_sin_clave, "") }

\* lines 536-542: strip, drop an opening fence with the json tag, drop a
\* closing fence, then json.loads. An opening fence without the tag is not
\* dropped, and json.loads raises on it.
Parsear(r) ==
    LET prefijo == IF r.prefijo = "fence_json" THEN "" ELSE r.prefijo
        sufijo == IF r.sufijo = "fence" THEN "" ELSE r.sufijo
    IN  IF prefijo = "" /\ sufijo = "" /\ r.json # "invalido"
        THEN [ok |-> TRUE, json |-> r.json, pares |-> r.pares]
        ELSE [ok |-> FALSE, json |-> "", pares |-> << >>]

\* The scorer is a function of the FAQ set alone, and a run sees the JSON
\* objects of Documentos only: veredictos holds
\* validar_calidad_faqs_mejorada(faqs) for each of them, computed when the
\* run starts, and Validar reads it.
RECURSIVE TablaVeredictos(_)
TablaVeredictos(n) ==
    IF n = 0 THEN [c \in {} |-> None]
    ELSE TablaVeredictos(n - 1)
         @@ (Documentos[n] :> validar_calidad_faqs_mejorada(FaqsDe(Documentos[n])))

\* validar_calidad_faqs_mejorada(faqs) for the JSON object given by pares
Validar(pares) == veredictos[pares]

\* faqs['faq_i']['pregunta'] or faqs['faq_i']['respuesta'] raises KeyError
\* for some i in 1..5 (lines 589-598)
FaltaClave(faqs) ==
    \E i \in 1..5 :
        \/ i \notin DOMAIN faqs
        \/ "pregunta" \notin DOMAIN faqs[i]
        \/ "respuesta" \notin DOMAIN faqs[i]

\* an attempt that ties with the best replaces it
EsMejorOIgual(total, mejor) == total >= mejor

\* a controller that keeps the last scored attempt
EsMejorSiempre(total, mejor) == TRUE

\* metricas['puntuacion_promedio'] > mejor_puntuacion
EsMejor(total, mejor) == total > mejor

\* a controller that stops on the tier alone
DebePararSinValidez(es_valido, calidad) == calidad \in {"EXCELENTE", "BUENA"}

\* es_valido and metricas['calidad_general'] in ['EXCELENTE', 'BUENA']
DebeParar(es_valido, calidad) == es_valido /\ calidad \in {"EXCELENTE", "BUENA"}


(***************************************************************************)
(* Product records. A record is a dict from column names to values; a     *)
(* value is a str, a float (kept in hundredths), the NaN pandas gives for  *)
(* an empty cell, or Falta when the dict has no such key.                  *)
(***************************************************************************)
Falta == [tipo |-> "falta"]
NaN == [tipo |-> "nan"]
Str(s) == [tipo |-> "str", v |-> s]
Num(n) == [tipo |-> "num", v |-> n]

\* columna in producto
Tiene(p, columna) == p[columna] # Falta

\* bool(x) for a value of a dict: NaN is a non-zero float, hence true
Truthy(x) ==
    \/ x.tipo = "nan"
    \/ x.tipo = "str" /\ Len(x.v) > 0
    \/ x.tipo = "num" /\ x.v # 0

\* producto.get(columna, defecto)
GetCampo(p, columna, defecto) == IF Tiene(p, columna) THEN p[columna] ELSE defecto

\* the decimal digits of a natural number
RECURSIVE Digitos(_)
Digitos(n) ==
    IF n < 10 THEN << <<"0","1","2","3","4","5","6","7","8","9">>[n + 1] >>
    ELSE Digitos(n \div 10) \o Digitos(n % 10)

\* str(x): a str is itself, NaN is "nan", a float is its shortest decimal
\* form with at least one decimal
StrDe(x) ==
    IF x.tipo = "str" THEN x.v
    ELSE IF x.tipo = "nan" THEN <<"n","a","n">>
    ELSE IF x.tipo = "num"
         THEN Digitos(x.v \div 100) \o <<".">>
              \o (IF x.v % 10 = 0 THEN Digitos((x.v % 100) \div 10)
                  ELSE Digitos((x.v % 100) \div 10) \o Digitos(x.v % 10))
    ELSE <<"N","o","n","e">>

\* position k of s is inside a match of the pattern <.*?>: after a "<"
\* with no ">" in between, and before or at a ">" on the same line
EnEtiqueta(s, k) ==
    \E i \in 1..k :
        /\ s[i] = "<"
        /\ \A m \in i..(k - 1) : s[m] # ">"
        /\ \E j \in k..Len(s) :
              /\ s[j] = ">"
              /\ j > i
              /\ \A m \in i..j : s[m] # "\n"

\* re.sub('<.*?>', ' ', s), up to the number of spaces each match leaves
\* (the split that follows makes runs of spaces one)
SinEtiquetas(s) ==
    IF \A k \in 1..Len(s) : s[k] # "<" THEN s
    ELSE SubSeq([k \in 1..Len(s) |-> IF EnEtiqueta(s, k) THEN " " ELSE s[k]], 1, Len(s))

\* the last position of s that is not whitespace, at or before k; 0 when
\* there is none
RECURSIVE UltimoNoBlanco(_, _)
UltimoNoBlanco(s, k) ==
    IF k = 0 THEN 0
    ELSE IF EsEspacio(s[k]) THEN UltimoNoBlanco(s, k - 1)
    ELSE k

\* what position k of s leaves in ' '.join(s.split()): a character of a
\* word is kept, and the first whitespace after a word is one space when
\* another word follows
Trozo(s, k, fin) ==
    IF ~EsEspacio(s[k]) THEN << s[k] >>
    ELSE IF k > 1 /\ k < fin /\ ~EsEspacio(s[k - 1]) THEN << " " >>
    ELSE << >>

RECURSIVE UnirEntre(_, _, _, _)
UnirEntre(s, a, b, fin) ==
    IF a > b THEN << >>
    ELSE IF a = b THEN Trozo(s, a, fin)
    ELSE UnirEntre(s, a, (a + b) \div 2, fin) \o UnirEntre(s, (a + b) \div 2 + 1, b, fin)

\* ' '.join(s.split())
Unir(s) == UnirEntre(s, 1, Len(s), UltimoNoBlanco(s, Len(s)))

\* limpiar_html (lines 116-124)
limpiar_html(x) ==
    IF x.tipo = "nan" THEN << >>
    ELSE Unir(SinEtiquetas(StrDe(x)))

ColumnasDescripcion ==
    << "Body HTML", "Body (HTML)", "body_html", "description", "Description" >>

\* obtener_descripcion_producto (lines 126-131): the first column that is
\* in the record with a true value
RECURSIVE DescripcionDesde(_, _)
DescripcionDesde(p, n) ==
    IF n > Len(ColumnasDescripcion) THEN << >>
    ELSE IF Tiene(p, ColumnasDescripcion[n]) /\ Truthy(p[ColumnasDescripcion[n]])
         THEN limpiar_html(p[ColumnasDescripcion[n]])
         ELSE DescripcionDesde(p, n + 1)
obtener_descripcion_producto(p) == DescripcionDesde(p, 1)

\* float(x) for the texts of the catalogs modelled: blanks, an optional
\* sign, digits with at most one point. ok is FALSE where float raises
\* ValueError. The value is entera plus a fraction that is zero or not.
SinBlancos(s) ==
    LET no == { k \in 1..Len(s) : ~EsEspacio(s[k]) }
    IN  IF no = {} THEN << >>
        ELSE SubSeq(s, CHOOSE a \in no : \A b \in no : a <= b,
                       CHOOSE a \in no : \A b \in no : a >= b)

RECURSIVE ValorDigitos(_)
ValorDigitos(s) ==
    IF Len(s) = 0 THEN 0
    ELSE 10 * ValorDigitos(SubSeq(s, 1, Len(s) - 1))
         + (CHOOSE d \in 0..9 : Digitos(d) = << s[Len(s)] >>)

NoEsFloat == [ok |-> FALSE, nan |-> FALSE, negativo |-> FALSE, entera |-> 0, resto |-> FALSE]

\* the digits before and after the point at position punto
FloatPartes(negativo, entera, decimal) ==
    IF Len(entera) + Len(decimal) = 0 THEN NoEsFloat
    ELSE [ok |-> TRUE, nan |-> FALSE, negativo |-> negativo,
          entera |-> ValorDigitos(entera),
          resto |-> \E k \in 1..Len(decimal) : decimal[k] # "0"]

FloatConPunto(negativo, cuerpo, punto) ==
    FloatPartes(negativo, SubSeq(cuerpo, 1, punto - 1), SubSeq(cuerpo, punto + 1, Len(cuerpo)))

FloatCuerpo(negativo, cuerpo, puntos) ==
    IF Cardinality(puntos) > 1 \/ \E k \in 1..Len(cuerpo) : k \notin puntos /\ ~EsDigito(cuerpo[k])
    THEN NoEsFloat
    ELSE FloatConPunto(negativo, cuerpo,
                       IF puntos = {} THEN Len(cuerpo) + 1 ELSE CHOOSE k \in puntos : TRUE)

FloatSinSigno(negativo, cuerpo) ==
    FloatCuerpo(negativo, cuerpo, { k \in 1..Len(cuerpo) : cuerpo[k] = "." })

FloatSinBlancos(t) ==
    IF Len(t) > 0 /\ t[1] \in {"+", "-"}
    THEN FloatSinSigno(t[1] = "-", SubSeq(t, 2, Len(t)))
    ELSE FloatSinSigno(FALSE, t)

FloatDeTexto(texto) == FloatSinBlancos(SinBlancos(texto))

\* float(x) for a value of a dict
Float(x) ==
    IF x.tipo = "str" THEN FloatDeTexto(x.v)
    ELSE IF x.tipo = "nan" THEN [ok |-> TRUE, nan |-> TRUE, negativo |-> FALSE, entera |-> 0, resto |-> FALSE]
    ELSE [ok |-> TRUE, nan |-> FALSE, negativo |-> FALSE,
          entera |-> x.v \div 100, resto |-> x.v % 100 # 0]

\* f > n for a float f that float() returned and a natural n; every
\* comparison with NaN is false
MayorQue(f, n) ==
    /\ ~f.nan
    /\ ~f.negativo
    /\ f.entera > n \/ (f.entera = n /\ f.resto)

(***************************************************************************)
(* analizar_producto_profundo and detectar_tipo_producto                   *)
(***************************************************************************)
palabras_ingredientes ==
    << <<"á","c","i","d","o">>,
       <<"r","e","t","i","n","o","l">>,
       <<"v","i","t","a","m","i","n","a">>,
       <<"c","o","l","á","g","e","n","o">>,
       <<"h","i","a","l","u","r","ó","n","i","c","o">> >>
palabras_tratamiento ==
    << <<"t","r","a","t","a","m","i","e","n","t","o">>,
       <<"s","e","r","u","m">>,
       <<"i","n","t","e","n","s","i","v","o">>,
       <<"c","o","n","c","e","n","t","r","a","d","o">> >>
palabras_edad ==
    << <<"a","n","t","i","e","d","a","d">>,
       <<"a","r","r","u","g","a","s">>,
       <<"f","i","r","m","e","z","a">>,
       <<"m","a","d","u","r">> >>
marcas_analisis ==
    << <<"N","a","t","u","r","a"," ","B","i","s","s","é">>,
       <<"L","a"," ","M","e","r">>,
       <<"S","i","s","l","e","y">>,
       <<"L","a"," ","P","r","a","i","r","i","e">> >>
\* the dict tipos of detectar_tipo_producto, in its order
tipos ==
    << [tipo |-> "serum", palabras |-> << <<"s","e","r","u","m">>, <<"s","é","r","u","m">>, <<"s","u","e","r","o">> >>],
       [tipo |-> "crema", palabras |-> << <<"c","r","e","m","a">>, <<"c","r","e","a","m">>, <<"m","o","i","s","t","u","r","i","z","e","r">> >>],
       [tipo |-> "limpiador", palabras |-> << <<"l","i","m","p","i","a","d","o","r">>, <<"c","l","e","a","n","s","e","r">>, <<"j","a","b","ó","n">>, <<"g","e","l"," ","l","i","m","p","i","a","d","o","r">> >>],
       [tipo |-> "mascarilla", palabras |-> << <<"m","a","s","c","a","r","i","l","l","a">>, <<"m","a","s","k">>, <<"m","á","s","c","a","r","a">> >>],
       [tipo |-> "contorno_ojos", palabras |-> << <<"o","j","o","s">>, <<"e","y","e">>, <<"c","o","n","t","o","r","n","o">>, <<"o","j","e","r","a","s">> >>],
       [tipo |-> "tratamiento", palabras |-> << <<"t","r","a","t","a","m","i","e","n","t","o">>, <<"t","r","e","a","t","m","e","n","t">>, <<"a","m","p","o","l","l","a">> >>],
       [tipo |-> "protector", palabras |-> << <<"s","p","f">>, <<"p","r","o","t","e","c","t","o","r">>, <<"s","o","l","a","r">>, <<"s","u","n","s","c","r","e","e","n">> >>] >>

\* detectar_tipo_producto (lines 152-170): the first type, in the order of
\* the dict, one of whose words is in the lower-cased title and description
RECURSIVE TipoDesde(_, _)
TipoDesde(texto_completo, n) ==
    IF n > Len(tipos) THEN "cosmético"
    ELSE IF ContieneAlguna(tipos[n].palabras, texto_completo) THEN tipos[n].tipo
         ELSE TipoDesde(texto_completo, n + 1)
detectar_tipo_producto(titulo, descripcion) ==
    TipoDesde(Lower(StrDe(titulo) \o << " " >> \o descripcion), 1)

\* the threshold of precio_alto (line 146)
UmbralPrecioAlto == 50

\* line 146: float(producto.get('Variant Price', 0)) > 50 if
\* producto.get('Variant Price') else False; error where float raises
PrecioAltoFloat(f) ==
    IF ~f.ok THEN [error |-> TRUE, valor |-> FALSE]
    ELSE [error |-> FALSE, valor |-> MayorQue(f, UmbralPrecioAlto)]

PrecioAltoDe(precio) ==
    IF ~Truthy(precio) THEN [error |-> FALSE, valor |-> FALSE]
    ELSE PrecioAltoFloat(Float(precio))

PrecioAlto(p) == PrecioAltoDe(GetCampo(p, "Variant Price", Num(0)))

\* analizar_producto_profundo (lines 133-150)
EsMarcaPremium(vendor) ==
    /\ vendor.tipo = "str"
    /\ \E n \in 1..Len(marcas_analisis) : marcas_analisis[n] = vendor.v

AnalisisDe(p, descripcion, baja, precio_alto) ==
    IF precio_alto.error THEN [error |-> "ValueError"]
    ELSE [ error |-> "",
           tiene_ingredientes |-> ContieneAlguna(palabras_ingredientes, baja),
           es_tratamiento |-> ContieneAlguna(palabras_tratamiento, baja),
           menciona_edad |-> ContieneAlguna(palabras_edad, baja),
           tipo_producto |-> detectar_tipo_producto(GetCampo(p, "Title", Str(<< >>)), descripcion),
           precio_alto |-> precio_alto.valor,
           marca_premium |-> EsMarcaPremium(GetCampo(p, "Vendor", Str(<< >>))) ]

AnalisisCon(p, descripcion) == AnalisisDe(p, descripcion, Lower(descripcion), PrecioAlto(p))

analizar_producto_profundo(p) == AnalisisCon(p, obtener_descripcion_producto(p))

(***************************************************************************)
(* enriquecer_descripcion_basica (lines 172-234)                          *)
(***************************************************************************)
\* lines 182-197: the words looked for in the title, in the order of the
\* if/elif chain, and the sentences each adds
info_por_tipo ==
    << [ palabras |-> << <<"s","e","r","u","m">>, <<"s","é","r","u","m">>, <<"s","u","e","r","o">> >>,
         frases |-> << <<"T","r","a","t","a","m","i","e","n","t","o"," ","c","o","n","c","e","n","t","r","a","d","o"," ","e","n"," ","f","o","r","m","a","t","o"," ","s","é","r","u","m"," ","d","e"," ","r","á","p","i","d","a"," ","a","b","s","o","r","c","i","ó","n",".">>,
                       <<"A","p","l","i","c","a","r"," ","s","o","b","r","e"," ","p","i","e","l"," ","l","i","m","p","i","a"," ","a","n","t","e","s"," ","d","e"," ","l","a"," ","c","r","e","m","a"," ","h","i","d","r","a","t","a","n","t","e",".">> >> ],
       [ palabras |-> << <<"c","r","e","m","a">>, <<"c","r","e","a","m">>, <<"m","o","i","s","t","u","r","i","z","e","r">> >>,
         frases |-> << <<"C","r","e","m","a"," ","f","a","c","i","a","l"," ","d","e"," ","t","e","x","t","u","r","a"," ","r","i","c","a"," ","q","u","e"," ","p","r","o","p","o","r","c","i","o","n","a"," ","h","i","d","r","a","t","a","c","i","ó","n"," ","p","r","o","f","u","n","d","a",".">>,
                       <<"A","p","l","i","c","a","r"," ","m","a","ñ","a","n","a"," ","y","/","o"," ","n","o","c","h","e"," ","c","o","n"," ","m","o","v","i","m","i","e","n","t","o","s"," ","c","i","r","c","u","l","a","r","e","s",".">> >> ],
       [ palabras |-> << <<"c","o","n","t","o","r","n","o">>, <<"e","y","e">>, <<"o","j","o","s">> >>,
         frases |-> << <<"T","r","a","t","a","m","i","e","n","t","o"," ","e","s","p","e","c","í","f","i","c","o"," ","p","a","r","a"," ","e","l"," ","d","e","l","i","c","a","d","o"," ","c","o","n","t","o","r","n","o"," ","d","e"," ","o","j","o","s",".">>,
                       <<"A","p","l","i","c","a","r"," ","c","o","n"," ","p","e","q","u","e","ñ","o","s"," ","t","o","q","u","e","s"," ","d","e","s","d","e"," ","e","l"," ","l","a","g","r","i","m","a","l"," ","h","a","c","i","a"," ","l","a"," ","s","i","e","n",".">> >> ],
       [ palabras |-> << <<"l","i","m","p","i","a","d","o","r">>, <<"c","l","e","a","n","s","e","r">>, <<"g","e","l">> >>,
         frases |-> << <<"P","r","o","d","u","c","t","o"," ","d","e"," ","l","i","m","p","i","e","z","a"," ","f","a","c","i","a","l"," ","q","u","e"," ","e","l","i","m","i","n","a"," ","i","m","p","u","r","e","z","a","s"," ","y"," ","m","a","q","u","i","l","l","a","j","e",".">>,
                       <<"A","p","l","i","c","a","r"," ","s","o","b","r","e"," ","p","i","e","l"," ","h","ú","m","e","d","a",","," ","m","a","s","a","j","e","a","r"," ","s","u","a","v","e","m","e","n","t","e"," ","y"," ","a","c","l","a","r","a","r",".">> >> ],
       [ palabras |-> << <<"m","a","s","c","a","r","i","l","l","a">>, <<"m","a","s","k">> >>,
         frases |-> << <<"M","a","s","c","a","r","i","l","l","a"," ","f","a","c","i","a","l"," ","d","e"," ","t","r","a","t","a","m","i","e","n","t","o"," ","i","n","t","e","n","s","i","v","o",".">>,
                       <<"A","p","l","i","c","a","r"," ","e","n"," ","c","a","p","a"," ","g","r","u","e","s","a",","," ","d","e","j","a","r"," ","a","c","t","u","a","r"," ","y"," ","r","e","t","i","r","a","r"," ","s","e","g","ú","n"," ","i","n","s","t","r","u","c","c","i","o","n","e","s",".">> >> ] >>

\* lines 199-210: the words looked for in title and tags, and the sentences
\* each adds
info_por_ingrediente ==
    << [ palabras |-> << <<"r","e","t","i","n","o","l">>, <<"r","e","t","i","n","a","l">> >>,
         frases |-> << <<"C","o","n","t","i","e","n","e"," ","r","e","t","i","n","o","l",","," ","i","n","g","r","e","d","i","e","n","t","e"," ","a","n","t","i","e","d","a","d"," ","d","e"," ","e","f","i","c","a","c","i","a"," ","c","o","m","p","r","o","b","a","d","a",".">>,
                       <<"U","s","a","r"," ","p","r","e","f","e","r","e","n","t","e","m","e","n","t","e"," ","p","o","r"," ","l","a"," ","n","o","c","h","e"," ","y"," ","c","o","m","p","l","e","m","e","n","t","a","r"," ","c","o","n"," ","S","P","F"," ","d","u","r","a","n","t","e"," ","e","l"," ","d","í","a",".">> >> ],
       [ palabras |-> << <<"v","i","t","a","m","i","n","a"," ","c">>, <<"v","i","t","a","m","i","n"," ","c">> >>,
         frases |-> << <<"R","i","c","o"," ","e","n"," ","v","i","t","a","m","i","n","a"," ","C",","," ","p","o","t","e","n","t","e"," ","a","n","t","i","o","x","i","d","a","n","t","e"," ","q","u","e"," ","i","l","u","m","i","n","a"," ","l","a"," ","p","i","e","l",".">>,
                       <<"I","d","e","a","l"," ","p","a","r","a"," ","u","s","o"," ","m","a","t","u","t","i","n","o"," ","s","e","g","u","i","d","o"," ","d","e"," ","p","r","o","t","e","c","t","o","r"," ","s","o","l","a","r",".">> >> ],
       [ palabras |-> << <<"a","c","i","d","o">>, <<"a","c","i","d">>, <<"á","c","i","d","o">> >>,
         frases |-> << <<"F","o","r","m","u","l","a","d","o"," ","c","o","n"," ","á","c","i","d","o","s"," ","q","u","e"," ","r","e","n","u","e","v","a","n"," ","y"," ","m","e","j","o","r","a","n"," ","l","a"," ","t","e","x","t","u","r","a"," ","d","e"," ","l","a"," ","p","i","e","l",".">>,
                       <<"I","n","t","r","o","d","u","c","i","r"," ","g","r","a","d","u","a","l","m","e","n","t","e"," ","e","n"," ","l","a"," ","r","u","t","i","n","a"," ","p","a","r","a"," ","e","v","i","t","a","r"," ","i","r","r","i","t","a","c","i","o","n","e","s",".">> >> ],
       [ palabras |-> << <<"h","i","a","l","u","r","o","n","i","c","o">>, <<"h","y","a","l","u","r","o","n","i","c">> >>,
         frases |-> << <<"C","o","n","t","i","e","n","e"," ","á","c","i","d","o"," ","h","i","a","l","u","r","ó","n","i","c","o"," ","p","a","r","a"," ","h","i","d","r","a","t","a","c","i","ó","n"," ","p","r","o","f","u","n","d","a"," ","y"," ","d","u","r","a","d","e","r","a",".">> >> ] >>

\* lines 214-219: the price each sentence asks for
info_por_precio ==
    << [ umbral |-> 80, frases |-> << <<"P","r","o","d","u","c","t","o"," ","p","r","e","m","i","u","m"," ","d","e"," ","a","l","t","a"," ","g","a","m","a"," ","c","o","n"," ","i","n","g","r","e","d","i","e","n","t","e","s"," ","s","e","l","e","c","t","o","s",".">> >> ],
       [ umbral |-> 40, frases |-> << <<"P","r","o","d","u","c","t","o"," ","d","e"," ","g","a","m","a"," ","m","e","d","i","a","-","a","l","t","a"," ","c","o","n"," ","f","ó","r","m","u","l","a"," ","a","v","a","n","z","a","d","a",".">> >> ],
       [ umbral |-> 15, frases |-> << <<"P","r","o","d","u","c","t","o"," ","d","e"," ","c","a","l","i","d","a","d"," ","c","o","n"," ","e","x","c","e","l","e","n","t","e"," ","r","e","l","a","c","i","ó","n"," ","c","a","l","i","d","a","d","-","p","r","e","c","i","o",".">> >> ] >>

\* line 225
marcas_premium ==
    << <<"n","a","t","u","r","a"," ","b","i","s","s","é">>,
       <<"l","a"," ","m","e","r">>,
       <<"s","i","s","l","e","y">>,
       <<"l","a"," ","p","r","a","i","r","i","e">>,
       <<"s","k","i","n","c","e","u","t","i","c","a","l","s">> >>

\* the sentences of the first entry of the table, from entry n on, one of
\* whose words is in the text: an if/elif chain of any(word in texto ...)
RECURSIVE PrimeraInfo(_, _, _)
PrimeraInfo(tabla, texto, n) ==
    IF n > Len(tabla) THEN << >>
    ELSE IF ContieneAlguna(tabla[n].palabras, texto) THEN tabla[n].frases
    ELSE PrimeraInfo(tabla, texto, n + 1)

\* lines 182-197: the sentences for the type of product read in the title
InfoTipo(titulo) == PrimeraInfo(info_por_tipo, titulo, 1)

\* lines 199-210: the sentences for the ingredient read in title or tags
InfoIngrediente(texto) == PrimeraInfo(info_por_ingrediente, texto, 1)

\* lines 214-219: the sentence of the first price the product is above
RECURSIVE InfoPrecioDesde(_, _)
InfoPrecioDesde(f, n) ==
    IF n > Len(info_por_precio) THEN << >>
    ELSE IF MayorQue(f, info_por_precio[n].umbral) THEN info_por_precio[n].frases
    ELSE InfoPrecioDesde(f, n + 1)

\* lines 212-222: float(precio) if precio else 0 inside try/except: a
\* price float cannot read adds nothing
InfoPrecioFloat(f) == IF ~f.ok THEN << >> ELSE InfoPrecioDesde(f, 1)

InfoPrecio(precio) == IF ~Truthy(precio) THEN << >> ELSE InfoPrecioFloat(Float(precio))

\* lines 224-227
InfoMarca(vendor) ==
    IF \E n \in 1..Len(marcas_premium) : marcas_premium[n] = Lower(vendor)
    THEN << <<"D","e","s","a","r","r","o","l","l","a","d","o"," ","p","o","r"," ">> \o vendor
            \o <<","," ","m","a","r","c","a"," ","d","e"," ","p","r","e","s","t","i","g","i","o"," ","e","n"," ","c","o","s","m","é","t","i","c","a"," ","d","e"," ","l","u","j","o",".">> >>
    ELSE << >>

\* " ".join(lista)
RECURSIVE Join(_)
Join(lista) ==
    IF Len(lista) = 0 THEN << >>
    ELSE IF Len(lista) = 1 THEN lista[1]
    ELSE lista[1] \o << " " >> \o Join(Tail(lista))

\* info_adicional[:3] keeps the first three sentences
MaxLineasAdicionales == 3

\* info_adicional[:3]
PrimerasLineas(info) ==
    IF Len(info) <= MaxLineasAdicionales THEN info ELSE SubSeq(info, 1, MaxLineasAdicionales)

\* lines 229-232
DescripcionFinal(descripcion, info_adicional) ==
    IF Len(info_adicional) > 0
    THEN descripcion \o << " " >> \o Join(PrimerasLineas(info_adicional))
    ELSE descripcion

InfoAdicional(titulo, tags, precio, vendor) ==
    InfoTipo(titulo) \o InfoIngrediente(titulo \o << " " >> \o tags)
    \o InfoPrecio(precio) \o InfoMarca(vendor)

\* .lower() of a title, of tags or of a vendor that is not a str raises
\* AttributeError
EnriquecerCon(descripcion, titulo, precio, vendor, tags) ==
    IF titulo.tipo # "str" \/ tags.tipo # "str" \/ vendor.tipo # "str"
    THEN [error |-> "AttributeError", texto |-> << >>]
    ELSE [ error |-> "",
           texto |-> DescripcionFinal(descripcion,
                                      InfoAdicional(Lower(titulo.v), Lower(tags.v), precio, vendor.v)) ]

enriquecer_descripcion_basica(p, descripcion) ==
    EnriquecerCon(descripcion, GetCampo(p, "Title", Str(<< >>)),
                  GetCampo(p, "Variant Price", Num(0)), GetCampo(p, "Vendor", Str(<< >>)),
                  GetCampo(p, "Tags", Str(<< >>)))

\* len(descripcion) < 50 (line 497)
LongitudMinimaDescripcion == 50

\* lines 495-503: a short description is enriched and written back, to
\* 'Body HTML' when the record has that key and to 'Body (HTML)' otherwise
ColumnaEscrita(p) == IF Tiene(p, "Body HTML") THEN "Body HTML" ELSE "Body (HTML)"

Escribir(p, e) ==
    IF e.error # "" THEN [error |-> e.error, producto |-> p]
    ELSE [error |-> "", producto |-> [p EXCEPT ![ColumnaEscrita(p)] = Str(e.texto)]]

VerificarCon(p, descripcion) ==
    IF Len(descripcion) >= LongitudMinimaDescripcion THEN [error |-> "", producto |-> p]
    ELSE Escribir(p, enriquecer_descripcion_basica(p, descripcion))

VerificarDescripcion(p) == VerificarCon(p, obtener_descripcion_producto(p))

(***************************************************************************)
(* The catalog                                                             *)
(***************************************************************************)
Columnas ==
    { "Handle", "Title", "Body HTML", "Body (HTML)", "body_html", "description",
      "Description", "Variant Price", "Vendor", "Tags" }

\* the dict of a row: the columns given, and no other key
Ficha(campos) == [c \in Columnas |-> IF c \in DOMAIN campos THEN campos[c] ELSE Falta]

T_crema == <<"C","r","e","m","a"," ","d","e"," ","n","o","c","h","e">>
T_descripcion_rica == <<"C","r","e","m","a"," ","h","i","d","r","a","t","a","n","t","e"," ","c","o","n"," ","á","c","i","d","o"," ","h","i","a","l","u","r","ó","n","i","c","o"," ","y"," ","v","i","t","a","m","i","n","a"," ","E"," ","p","a","r","a"," ","t","o","d","o"," ","t","i","p","o"," ","d","e"," ","p","i","e","l",".">>
T_marca == <<"S","i","s","l","e","y">>
T_tags == <<"h","i","d","r","a","t","a","n","t","e",","," ","n","o","c","h","e">>

\* row k of the catalog of a batch: a product with a full description
Fila(k) ==
    Ficha(("Handle" :> Str(<< "p" >> \o Digitos(k))) @@ ("Title" :> Str(T_crema))
          @@ ("Body HTML" :> Str(T_descripcion_rica)) @@ ("Variant Price" :> Num(4500))
          @@ ("Vendor" :> Str(T_marca)) @@ ("Tags" :> Str(T_tags)))

total_productos == IF limite <= Len(df) THEN limite ELSE Len(df)

producto == df[idx + 1]

(***************************************************************************)
(* The generation request of one attempt (lines 507-533)                   *)
(***************************************************************************)
\* a temperature that falls with the attempt
TemperatureDecreciente(i) == 70 - i * 10

\* temperature = 0.7 + (intento * 0.1), in hundredths, for the 0-based
\* attempt index i
Temperature(i) == 70 + i * 10

\* presence_penalty and frequency_penalty = 0.3 + (intento * 0.1)
PresencePenalty(i) == 30 + i * 10
FrequencyPenalty(i) == 30 + i * 10

\* top_p = 0.95 and max_tokens = 1500 on every attempt
TopP(i) == 95
MaxTokens(i) == 1500

\* generar_contexto_producto (lines 264-289): the notes added to the
\* prompt, each with the attempt number it quotes (0 when it quotes none)
generar_contexto_producto(a, i) ==
    (IF a.tiene_ingredientes
     THEN << [tema |-> "ingredientes", intento |-> IF i >= 1 THEN i + 1 ELSE 0] >> ELSE << >>)
    \o (IF a.es_tratamiento
        THEN << [tema |-> "protocolo", intento |-> IF i >= 1 THEN i + 1 ELSE 0] >> ELSE << >>)
    \o (IF a.precio_alto
        THEN << [tema |-> "precio", intento |-> IF i >= 1 THEN i + 1 ELSE 0] >> ELSE << >>)
    \o (IF a.menciona_edad THEN << [tema |-> "antiedad", intento |-> 0] >> ELSE << >>)

\* descripcion_limpia[:600]
MaxDescripcionPrompt == 600
Recortar(t) == IF Len(t) <= MaxDescripcionPrompt THEN t ELSE SubSeq(t, 1, MaxDescripcionPrompt)

\* crear_prompt_premium_adaptativo (lines 291-378): the parts of the text
\* that depend on the product and on the attempt. The example questions
\* of lines 296-304 are drawn at random from the categories chosen by
\* seleccionar_categorias_aleatorias and are not kept here.
crear_prompt_premium_adaptativo(p, a, i) ==
    [ instrucciones_intento |-> i,
      nombre |-> StrDe(GetCampo(p, "Title", Str(<< >>))),
      marca |-> StrDe(GetCampo(p, "Vendor", Str(<< >>))),
      descripcion |-> Recortar(obtener_descripcion_producto(p)),
      tipo |-> a.tipo_producto,
      precio |-> StrDe(GetCampo(p, "Variant Price", Str(<< >>))),
      tags |-> StrDe(GetCampo(p, "Tags", Str(<< >>))),
      contexto |-> generar_contexto_producto(a, i),
      criterios_longitud |-> i ]

\* the request client.chat.completions.create receives on attempt i of the
\* product under way
Peticion(i) ==
    [ temperature |-> Temperature(i),
      max_tokens |-> MaxTokens(i),
      presence_penalty |-> PresencePenalty(i),
      frequency_penalty |-> FrequencyPenalty(i),
      top_p |-> TopP(i),
      sistema |-> i + 1,
      prompt |-> crear_prompt_premium_adaptativo(producto_actual, analisis, i) ]

(***************************************************************************)
(* guardar_resultados_premium_mejorados (lines 841-869)                    *)
(***************************************************************************)
\* the first character of each key of a result record; faqs stands for
\* the ten "Metafield: custom.faqN..." columns
Inicial ==
    [ Handle |-> "H", faqs |-> "M", _calidad |-> "_", _intentos |-> "_",
      _puntuacion |-> "_", _historial |-> "_" ]

\* a filter that drops no key
EmpiezaConGuionNunca(k) == FALSE

\* k.startswith('_')
EmpiezaConGuion(k) == Inicial[k] = "_"

\* {k: v for k, v in r.items() if not k.startswith('_')}
clean_result(r) == [k \in { c \in DOMAIN r : ~EmpiezaConGuion(c) } |-> r[k]]

\* the files written: the CSV of clean rows, the report built from the
\* result records and the error records, and the CSV of errors when there
\* are errors; nothing when there is no result
guardar_resultados_premium_mejorados(res, errs) ==
    IF Len(res) = 0 THEN << >>
    ELSE << [ archivo |-> "faqs_PREMIUM",
              filas |-> SubSeq([n \in 1..Len(res) |-> clean_result(res[n])], 1, Len(res)) ],
            [ archivo |-> "REPORTE_COMPLETO", resultados |-> res, errores |-> errs ] >>
         \o (IF Len(errs) > 0 THEN << [ archivo |-> "errores", filas |-> errs ] >> ELSE << >>)

\* return archivo_reporte if resultados else None (line 869)
archivo_reporte(res) == IF Len(res) = 0 THEN None ELSE [archivo |-> "REPORTE_COMPLETO"]

(***************************************************************************)
(* procesar_productos_premium_mejorado                                     *)
(***************************************************************************)
\* the value a call hands to its caller: nothing yet, or a tuple
SinRetorno == [tipo |-> "sin_retorno"]
Tupla(v) == [tipo |-> "tuple", v |-> v]

\* resultados, errores, archivo_reporte = ... (line 1110): the value is
\* unpacked into three names; None, or a tuple of another length, raises
Desempaqueta(r) == r.tipo = "tuple" /\ Len(r.v) = 3

\* lines 929-943: the dataset analysis; the percentage of line 940 divides
\* by total_productos
AnalizarDataset ==
    /\ pc = "analizar"
    /\ pc' = IF total_productos = 0 THEN "ZeroDivisionError" ELSE "confirmar"
    /\ UNCHANGED << df, limite, repertorio, veredictos, idx, intento, llamadas, mejor_resultado,
                    mejor_puntuacion, historial_intentos, ultimo, devuelto,
                    resultados, errores, entrada, veredicto, confirmacion,
                    producto_actual, analisis, registro, archivos, categorias, retorno >>

\* a confirmation that takes every answer for a yes
CancelaNunca(confirmar) == FALSE

\* confirmar.lower() != 's' (line 947)
Cancela(confirmar) == Lower(confirmar) # << "s" >>

\* lines 945-963: the confirmation, then the empty lists; a bare return
\* (line 949) hands None to the caller
Confirmar(confirmar) ==
    /\ pc = "confirmar"
    /\ confirmacion' = confirmar
    /\ IF Cancela(confirmar)
       THEN pc' = "cancelado" /\ retorno' = None /\ UNCHANGED << resultados, errores >>
       ELSE pc' = "lote" /\ resultados' = << >> /\ errores' = << >> /\ UNCHANGED retorno
    /\ UNCHANGED << df, limite, repertorio, veredictos, idx, intento, llamadas, mejor_resultado,
                    mejor_puntuacion, historial_intentos, ultimo, devuelto,
                    entrada, veredicto, producto_actual, analisis, registro,
                    archivos, categorias >>

\* a controller that goes on from the best attempt of the product before
MejorResultadoHeredado == mejor_resultado

\* lines 491-493: the locals of the controller when it is entered
MejorResultadoInicial == None
MejorPuntuacionInicial == 0
HistorialInicial == << >>

\* lines 966-982 and 488-503: the next row becomes the dict producto and
\* enters the controller, which analyses it and enriches a short
\* description. The slice of the title at line 971 raises TypeError for a
\* title that is not a str, float() at line 146 raises ValueError, and
\* .lower() at lines 174, 177 and 226 raises AttributeError; none of them
\* is inside a try.
EntrarControlador(p, a, v) ==
    IF GetCampo(p, "Title", Str(<< >>)).tipo # "str"
    THEN pc' = "TypeError" /\ producto_actual' = p /\ analisis' = None
    ELSE IF a.error # ""
    THEN pc' = a.error /\ producto_actual' = p /\ analisis' = None
    ELSE IF v.error # ""
    THEN pc' = v.error /\ producto_actual' = p /\ analisis' = a
    ELSE pc' = "intentar" /\ producto_actual' = v.producto /\ analisis' = a

IniciarProducto ==
    /\ pc = "lote"
    /\ idx < total_productos
    /\ EntrarControlador(producto, analizar_producto_profundo(producto),
                         VerificarDescripcion(producto))
    /\ intento' = 0
    /\ llamadas' = 0
    /\ mejor_resultado' = MejorResultadoInicial
    /\ mejor_puntuacion' = MejorPuntuacionInicial
    /\ historial_intentos' = HistorialInicial
    /\ ultimo' = None
    /\ devuelto' = None
    /\ registro' = << >>
    /\ UNCHANGED << df, limite, repertorio, veredictos, idx, resultados, errores, entrada,
                    veredicto, confirmacion, archivos, categorias, retorno >>

\* a loop that is left after any attempt
SigueBucleUnaVez(paro) == "devolver"

\* after the body of the retry loop: break, or the next value of range(max_intentos)
SigueBucle(paro) ==
    IF paro \/ intento + 1 >= max_intentos THEN "devolver" ELSE "intentar"

\* attempts numbered from 0
NumeroIntentoDesdeCero == intento

\* intento + 1, the number of the attempt under way
NumeroIntento == intento + 1

\* lines 572-579: the except clause
Excepcion(e) ==
    /\ historial_intentos' = Append(historial_intentos, [intento |-> NumeroIntento, error |-> e])
    /\ ultimo' = [tipo |-> "excepcion", error |-> e]
    /\ pc' = SigueBucle(FALSE)
    /\ UNCHANGED << mejor_resultado, mejor_puntuacion >>

\* lines 505-579: one iteration of the retry loop, the API answering r
Intento(r) ==
    /\ pc = "intentar"
    /\ intento < max_intentos
    /\ llamadas' = llamadas + 1
    /\ intento' = intento + 1
    /\ registro' = Append(registro, [ producto |-> idx + 1, intento |-> NumeroIntento,
                                      peticion |-> Peticion(intento), respuesta |-> r ])
    /\ IF r.tipo = "error_api" THEN Excepcion("api")
       ELSE LET faqs == Parsear(r) IN
            IF ~faqs.ok THEN Excepcion("json")
            ELSE IF faqs.json # "objeto" THEN Excepcion("atributo")
            ELSE LET v == Validar(faqs.pares)
                     metricas == [ puntuacion_total |-> v.puntuacion_total,
                                   calidad_general |-> v.calidad_general,
                                   detalle_faqs |-> v.detalle_faqs ]
                     paro == DebeParar(v.es_valido, v.calidad_general)
                 IN  /\ historial_intentos' =
                            Append(historial_intentos,
                                   [ intento |-> NumeroIntento,
                                     puntuacion |-> v.puntuacion_total,
                                     calidad |-> v.calidad_general,
                                     errores |-> Len(v.errores) ])
                     /\ IF EsMejor(v.puntuacion_total, mejor_puntuacion)
                        THEN /\ mejor_puntuacion' = v.puntuacion_total
                             /\ mejor_resultado' = [ faqs |-> faqs.pares,
                                                     metricas |-> metricas,
                                                     intento |-> NumeroIntento ]
                        ELSE UNCHANGED << mejor_resultado, mejor_puntuacion >>
                     /\ ultimo' = [ tipo |-> "validado", faqs |-> faqs.pares,
                                    es_valido |-> v.es_valido,
                                    errores |-> v.errores, metricas |-> metricas,
                                    paro |-> paro ]
                     /\ pc' = SigueBucle(paro)
    /\ UNCHANGED << df, limite, repertorio, veredictos, idx, devuelto, resultados, errores,
                    entrada, veredicto, confirmacion, producto_actual, analisis,
                    archivos, categorias, retorno >>

\* lines 581-607: the result built from the best attempt, or None
Devolver ==
    /\ pc = "devolver"
    /\ IF mejor_resultado # None
       THEN IF FaltaClave(FaqsDe(mejor_resultado.faqs))
            THEN pc' = "KeyError" /\ UNCHANGED devuelto
            ELSE /\ pc' = "registrar"
                 /\ devuelto' = [ Handle |-> GetCampo(producto_actual, "Handle", Str(<< >>)),
                                  faqs |-> mejor_resultado.faqs,
                                  _calidad |-> mejor_resultado.metricas.calidad_general,
                                  _intentos |-> mejor_resultado.intento,
                                  _puntuacion |-> mejor_resultado.metricas.puntuacion_total,
                                  _historial |-> historial_intentos ]
       ELSE pc' = "registrar" /\ devuelto' = None
    /\ UNCHANGED << df, limite, repertorio, veredictos, idx, intento, llamadas, mejor_resultado,
                    mejor_puntuacion, historial_intentos, ultimo, resultados,
                    errores, entrada, veredicto, confirmacion, producto_actual,
                    analisis, registro, archivos, categorias, retorno >>

\* lines 984-1038: the product's result goes to resultados, or the product
\* to errores
Registrar ==
    /\ pc = "registrar"
    /\ IF devuelto # None
       THEN resultados' = Append(resultados, devuelto) /\ UNCHANGED errores
       ELSE /\ errores' =
                   Append(errores,
                          [ Handle |-> GetCampo(producto_actual, "Handle", Str(<< >>)),
                            Title |-> GetCampo(producto_actual, "Title", Str(<< >>)),
                            Error |-> "calidad_insuficiente",
                            Descripcion_chars |-> Len(obtener_descripcion_producto(producto)) ])
            /\ UNCHANGED resultados
    /\ idx' = idx + 1
    /\ pc' = "lote"
    /\ UNCHANGED << df, limite, repertorio, veredictos, intento, llamadas, mejor_resultado,
                    mejor_puntuacion, historial_intentos, ultimo, devuelto,
                    entrada, veredicto, confirmacion, producto_actual, analisis,
                    registro, archivos, categorias, retorno >>

\* lines 1040-1053: the loop is over, the files are written when there is
\* a result, and the batch returns resultados, errores, archivo_reporte, or
\* [], errores, None, where resultados is the empty list already
Terminar ==
    /\ pc = "lote"
    /\ idx >= total_productos
    /\ pc' = "terminado"
    /\ archivos' = guardar_resultados_premium_mejorados(resultados, errores)
    /\ retorno' = Tupla(<< resultados, errores, archivo_reporte(resultados) >>)
    /\ UNCHANGED << df, limite, repertorio, veredictos, idx, intento, llamadas, mejor_resultado,
                    mejor_puntuacion, historial_intentos, ultimo, devuelto,
                    resultados, errores, entrada, veredicto, confirmacion,
                    producto_actual, analisis, registro, categorias >>

\* what the user may type at the confirmation
Confirmaciones == { << "s" >>, << "S" >>, << "n" >>, << "N" >>, << >>, << "s", "i" >> }

Next ==
    \/ AnalizarDataset
    \/ \E confirmar \in Confirmaciones : Confirmar(confirmar)
    \/ IniciarProducto
    \/ \E r \in repertorio : Intento(r)
    \/ Devolver
    \/ Registrar
    \/ Terminar

MaxFilas == 2
MaxLimite == 2

InicioComun ==
    /\ veredictos = TablaVeredictos(Len(Documentos))
    /\ pc = "analizar"
    /\ idx = 0
    /\ intento = 0
    /\ llamadas = 0
    /\ mejor_resultado = None
    /\ mejor_puntuacion = 0
    /\ historial_intentos = << >>
    /\ ultimo = None
    /\ devuelto = None
    /\ resultados = << >>
    /\ errores = << >>
    /\ entrada = << >>
    /\ veredicto = None
    /\ confirmacion = << >>
    /\ producto_actual = None
    /\ analisis = None
    /\ registro = << >>
    /\ archivos = << >>
    /\ categorias = << >>
    /\ retorno = SinRetorno

\* a batch over a catalog of up to MaxFilas rows
Init ==
    /\ \E n \in 0..MaxFilas : df = SubSeq([k \in 1..n |-> Fila(k)], 1, n)
    /\ limite \in 0..MaxLimite
    /\ repertorio = RespuestasLote
    /\ InicioComun

Spec == Init /\ [][Next]_vars

\* the retry controller on one product, every response possible
InitControl ==
    /\ df = << Fila(1) >>
    /\ limite = 1
    /\ repertorio = RespuestasControl
    /\ InicioComun

SpecControl == InitControl /\ [][Next]_vars
(***************************************************************************)
(* The controller entered on one product of any shape: the columns a       *)
(* catalog may carry or lack, and the cells pd.read_csv (line 930) leaves  *)
(* as NaN when they are empty.                                             *)
(***************************************************************************)
T_serum == <<"S","é","r","u","m"," ","V","i","t","a","l"," ","C">>
T_tonico == <<"T","ó","n","i","c","o"," ","f","a","c","i","a","l"," ","s","u","a","v","e">>
T_corta == <<"U","s","o"," ","d","i","a","r","i","o",".">>
T_html == <<"<","p",">","U","s","o"," ","<","b",">","d","i","a","r","i","o","<","/","b",">",".","<","/","p",">">>
T_tags_retinol == <<"r","e","t","i","n","o","l",","," ","n","o","c","h","e">>
T_la_mer == <<"L","a"," ","M","e","r">>
T_precio_texto == <<"a","b","c">>
T_precio_decimal == <<"8","9",".","9","0">>

Titulos == { Falta, NaN, Str(T_serum), Str(T_crema), Str(T_tonico) }

\* the description columns of a record: none, or one or two of the five
Descripciones ==
    { "Body HTML" :> Falta,
      "Body HTML" :> Str(T_descripcion_rica),
      "Body HTML" :> Str(T_corta),
      ("Body HTML" :> NaN) @@ ("Description" :> Str(T_corta)),
      "Description" :> Str(T_corta),
      "Body (HTML)" :> Str(T_html),
      "body_html" :> Str(T_corta) }

Precios ==
    { Falta, NaN, Str(<< >>), Str(T_precio_texto), Str(T_precio_decimal), Num(4500), Num(9500) }

Vendedores == { Falta, NaN, Str(T_la_mer) }

Etiquetas == { Falta, NaN, Str(T_tags_retinol) }

Productos ==
    { Ficha(("Handle" :> Str(<< "p", "1" >>)) @@ ("Title" :> t) @@ d
            @@ ("Variant Price" :> precio) @@ ("Vendor" :> v) @@ ("Tags" :> e)) :
        t \in Titulos, d \in Descripciones, precio \in Precios, v \in Vendedores, e \in Etiquetas }

\* the responses of a run on one product of any shape
RespuestasProducto == { ErrorAPI, Texto("", "objeto", D_buena, "") }

\* the batch has been confirmed and is at its only row
InitProducto ==
    /\ veredictos = TablaVeredictos(Len(Documentos))
    /\ repertorio = RespuestasProducto
    /\ limite = 1
    /\ pc = "lote"
    /\ idx = 0
    /\ intento = 0
    /\ llamadas = 0
    /\ mejor_resultado = None
    /\ mejor_puntuacion = 0
    /\ historial_intentos = << >>
    /\ ultimo = None
    /\ devuelto = None
    /\ resultados = << >>
    /\ errores = << >>
    /\ entrada = << >>
    /\ veredicto = None
    /\ confirmacion = << "s" >>
    /\ producto_actual = None
    /\ analisis = None
    /\ registro = << >>
    /\ archivos = << >>
    /\ categorias = << >>
    /\ retorno = SinRetorno
    /\ \E p \in Productos : df = << p >>

NextProducto ==
    \/ IniciarProducto
    \/ \E r \in repertorio : Intento(r)
    \/ Devolver
    \/ Registrar
    \/ Terminar

SpecProducto == InitProducto /\ [][NextProducto]_vars
(***************************************************************************)
(* seleccionar_categorias_aleatorias (lines 236-262) on its own: the       *)
(* categories of the example questions of one prompt                       *)
(***************************************************************************)
\* list(self.banco_preguntas.keys()), lines 46-110
todas_categorias ==
    << "aplicacion", "compatibilidad", "resultados", "ingredientes", "diferenciacion",
       "combinaciones", "conservacion", "precauciones" >>


\* 'retinol' in str(producto).lower() or 'ácido' in str(producto).lower():
\* the words are in no column name, so they are in the text of some value
MencionaPrecaucion(p) ==
    \E c \in Columnas :
        /\ Tiene(p, c)
        /\ ContieneAlguna(<< <<"r","e","t","i","n","o","l">>, <<"á","c","i","d","o">> >>,
                          Lower(StrDe(p[c])))

\* lines 241-250
prioridades(p, a) ==
    (IF a.tiene_ingredientes THEN << "ingredientes" >> ELSE << >>)
    \o (IF a.es_tratamiento THEN << "resultados", "combinaciones" >> ELSE << >>)
    \o (IF a.precio_alto THEN << "diferenciacion" >> ELSE << >>)
    \o (IF MencionaPrecaucion(p) THEN << "precauciones" >> ELSE << >>)

\* a selection that takes no priority category
NumeroPrioritariasNinguna(n) == 0

\* min(2, len(prioridades)), line 253
NumeroPrioritarias(n) == IF n < 2 THEN n ELSE 2

\* the categories of a prompt: 5 - len(categorias_seleccionadas), [:5]
NumeroCategorias == 5

Elementos(lista) == { lista[n] : n \in 1..Len(lista) }

\* random.sample(lista, k), up to the order of the sample, which the
\* shuffle of line 260 replaces
Muestras(lista, k) == { m \in SUBSET Elementos(lista) : Cardinality(m) = k }

\* line 256: the categories not yet selected, as a list
Restantes(seleccionadas) == SelectSeq(todas_categorias, LAMBDA cat : cat \notin seleccionadas)

\* random.shuffle: every order of the elements of m
Ordenes(m) ==
    { f \in [1..Cardinality(m) -> m] : \A i, j \in 1..Cardinality(m) : i # j => f[i] # f[j] }

Primeras(lista, n) == IF Len(lista) <= n THEN lista ELSE SubSeq(lista, 1, n)

Seleccionar ==
    /\ pc = "categorias"
    /\ \E seleccionadas \in Muestras(prioridades(producto_actual, analisis),
                                     NumeroPrioritarias(Len(prioridades(producto_actual, analisis)))) :
          \E adicionales \in Muestras(Restantes(seleccionadas),
                                      NumeroCategorias - Cardinality(seleccionadas)) :
             \E finales \in Ordenes(seleccionadas \cup adicionales) :
                categorias' = Primeras(finales, NumeroCategorias)
    /\ pc' = "seleccionadas"
    /\ UNCHANGED << df, limite, repertorio, veredictos, idx, intento, llamadas,
                    mejor_resultado, mejor_puntuacion, historial_intentos, ultimo,
                    devuelto, resultados, errores, entrada, veredicto, confirmacion,
                    producto_actual, analisis, registro, archivos, retorno >>

T_bruma == <<"B","r","u","m","a"," ","f","a","c","i","a","l"," ","r","e","f","r","e","s","c","a","n","t","e"," ","p","a","r","a"," ","e","l"," ","r","o","s","t","r","o",","," ","d","e"," ","u","s","o"," ","d","i","a","r","i","o"," ","y"," ","l","i","g","e","r","a",".">>
T_tratamiento == <<"T","r","a","t","a","m","i","e","n","t","o"," ","i","n","t","e","n","s","i","v","o"," ","d","e"," ","n","o","c","h","e"," ","q","u","e"," ","r","e","n","u","e","v","a"," ","l","a"," ","p","i","e","l"," ","m","i","e","n","t","r","a","s"," ","d","u","e","r","m","e","s",".">>
T_retinol == <<"T","r","a","t","a","m","i","e","n","t","o"," ","c","o","n","c","e","n","t","r","a","d","o"," ","c","o","n"," ","r","e","t","i","n","o","l"," ","p","u","r","o"," ","p","a","r","a"," ","l","a","s"," ","a","r","r","u","g","a","s"," ","m","a","r","c","a","d","a","s",".">>

\* products with none to five priority categories
ProductosCategorias ==
    { Ficha(("Handle" :> Str(<< "p", "1" >>)) @@ ("Title" :> Str(T_crema))
            @@ ("Body HTML" :> Str(d)) @@ ("Variant Price" :> Num(precio))
            @@ ("Vendor" :> Str(T_marca)) @@ ("Tags" :> Str(T_tags))) :
        d \in { T_bruma, T_descripcion_rica, T_tratamiento, T_retinol },
        precio \in { 4500, 9500 } }

\* crear_prompt_premium_adaptativo is about to choose the categories for
\* the product the controller has analysed
InitCategorias ==
    /\ \E p \in ProductosCategorias :
          /\ df = << p >>
          /\ producto_actual = VerificarDescripcion(p).producto
          /\ analisis = analizar_producto_profundo(p)
    /\ pc = "categorias"
    /\ limite = 1
    /\ repertorio = {}
    /\ veredictos = [c \in {} |-> None]
    /\ idx = 0
    /\ intento = 0
    /\ llamadas = 0
    /\ mejor_resultado = None
    /\ mejor_puntuacion = 0
    /\ historial_intentos = << >>
    /\ ultimo = None
    /\ devuelto = None
    /\ resultados = << >>
    /\ errores = << >>
    /\ entrada = << >>
    /\ veredicto = None
    /\ confirmacion = << "s" >>
    /\ registro = << >>
    /\ archivos = << >>
    /\ categorias = << >>
    /\ retorno = SinRetorno

NextCategorias == Seleccionar

SpecCategorias == InitCategorias /\ [][NextCategorias]_vars
(***************************************************************************)
(* The scorer on its own: validar_calidad_faqs_mejorada applied to a FAQ   *)
(* set drawn from Entradas.                                                *)
(***************************************************************************)
Longitudes == {120, 149, 150, 199, 200, 250, 300, 301, 350, 351}
Vagas == {"ninguna", "algo", "cosa", "etc", "etcetera", "algo_cosa"}

\* the pairs that fill four of the five places of a FAQ set
Fondos ==
    << Par("optima", "rica", "ninguna", 250),
       Par("media", "media", "ninguna", 250),
       Par("media", "media", "ninguna", 120),
       Par("media", "simple", "ninguna", 150),
       Par("mal", "simple", "ninguna", 120) >>

\* the pairs that take the remaining place
Variables ==
    { Par(p, "rica", "ninguna", 250) : p \in {"optima", "media", "generica", "corta", "mal"} }
    \cup { Par("optima", b, "ninguna", l) : b \in {"rica", "simple"}, l \in Longitudes }
    \cup { Par("media", b, v, l) : b \in {"rica", "simple"}, v \in Vagas, l \in {120, 200, 250} }
    \cup { Par("media", "simple", "ninguna", l) : l \in Longitudes }
    \cup { Par(p, "simple", v, l) : p \in {"corta", "mal"}, v \in {"ninguna", "algo"}, l \in {120, 150} }
    \cup { Par("generica_breve", "minima", "ninguna", l) : l \in {250, 251} }
    \cup { SinClave, Par(Ausente, "rica", "ninguna", 250), Par("optima", Ausente, "ninguna", 0) }

\* the FAQ set with v at place k and f at the other places
Poner(f, v, k) == SubSeq([i \in 1..5 |-> IF i = k THEN v ELSE f], 1, 5)

Entradas == { Poner(Fondos[n], v, n) : n \in 1..Len(Fondos), v \in Variables }

InitPuntuacion ==
    /\ entrada \in Entradas
    /\ veredicto = None
    /\ pc = "puntuar"
    /\ df = << >>
    /\ limite = 0
    /\ repertorio = {}
    /\ veredictos = [c \in {} |-> None]
    /\ idx = 0
    /\ intento = 0
    /\ llamadas = 0
    /\ mejor_resultado = None
    /\ mejor_puntuacion = 0
    /\ historial_intentos = << >>
    /\ ultimo = None
    /\ devuelto = None
    /\ resultados = << >>
    /\ errores = << >>
    /\ confirmacion = << >>
    /\ producto_actual = None
    /\ analisis = None
    /\ registro = << >>
    /\ archivos = << >>
    /\ categorias = << >>
    /\ retorno = SinRetorno

\* lines 380-486: one call of the scorer
Puntuar ==
    /\ pc = "puntuar"
    /\ veredicto' = validar_calidad_faqs_mejorada(FaqsDe(entrada))
    /\ pc' = "puntuado"
    /\ UNCHANGED << df, limite, repertorio, veredictos, idx, intento, llamadas,
                    mejor_resultado, mejor_puntuacion, historial_intentos, ultimo,
                    devuelto, resultados, errores, entrada, confirmacion,
                    producto_actual, analisis, registro, archivos, categorias, retorno >>

NextPuntuacion == Puntuar

SpecPuntuacion == InitPuntuacion /\ [][NextPuntuacion]_vars
(***************************************************************************)
(* Retry controller: properties                                            *)
(***************************************************************************)
\* attempt n of the current product was parsed and scored
Puntuado(n) == "calidad" \in DOMAIN historial_intentos[n]

\* attempt n of the current product ended in the except clause with error e
Fallo(n, e) ==
    /\ "error" \in DOMAIN historial_intentos[n]
    /\ historial_intentos[n].error = e

\* the loop of the current product ended with break
ParoTemprano == ultimo.tipo = "validado" /\ ultimo.paro

\* the three outcomes of the controller, once it has returned
DONE_PASS == pc = "registrar" /\ ParoTemprano /\ devuelto # None
DONE_BEST_EFFORT == pc = "registrar" /\ ~ParoTemprano /\ devuelto # None
DONE_FAILED == pc = "registrar" /\ devuelto = None

\* C1: the controller makes at most max_intentos generation calls for a
\* product and then ends in exactly one of DONE_PASS, DONE_BEST_EFFORT and
\* DONE_FAILED; it never ends by raising.
C1_TresResultados ==
    /\ llamadas <= max_intentos
    /\ pc # "KeyError"
    /\ pc = "registrar" =>
          /\ DONE_PASS \/ DONE_BEST_EFFORT \/ DONE_FAILED
          /\ ~(DONE_PASS /\ DONE_BEST_EFFORT)
          /\ ~(DONE_PASS /\ DONE_FAILED)
          /\ ~(DONE_BEST_EFFORT /\ DONE_FAILED)

\* C2: within one product's retry loop the score of the retained best
\* attempt never decreases from one attempt to the next, and the retained
\* result carries that score.
C2_MejorNoDecrece ==
    [][pc = "intentar" =>
          /\ mejor_puntuacion' >= mejor_puntuacion
          /\ mejor_resultado # None =>
                /\ mejor_resultado' # None
                /\ mejor_resultado'.metricas.puntuacion_total
                      >= mejor_resultado.metricas.puntuacion_total
          /\ mejor_resultado' # None =>
                mejor_resultado'.metricas.puntuacion_total = mejor_puntuacion']_vars

\* C2 witness: a second or third attempt scored below the retained best
C2_Witness ==
    /\ pc \in {"intentar", "devolver"}
    /\ ultimo.tipo = "validado"
    /\ mejor_resultado # None
    /\ ultimo.metricas.puntuacion_total < mejor_puntuacion
    /\ mejor_resultado.intento < Len(historial_intentos)

\* C3: the loop stops early exactly after an attempt with no violation and
\* tier EXCELENTE or BUENA: such an attempt is the last call of the
\* product, and an attempt with a violation or with tier ACEPTABLE or
\* INSUFICIENTE is followed by the next attempt while attempts remain.
C3_ParoExacto ==
    pc \in {"intentar", "devolver", "registrar", "KeyError"} =>
        \A n \in 1..Len(historial_intentos) :
            Puntuado(n) =>
                IF /\ historial_intentos[n].errores = 0
                   /\ historial_intentos[n].calidad \in {"EXCELENTE", "BUENA"}
                THEN /\ n = Len(historial_intentos)
                     /\ llamadas = n
                     /\ pc # "intentar"
                     /\ ultimo.es_valido
                ELSE n < max_intentos =>
                        \/ Len(historial_intentos) > n
                        \/ pc = "intentar"

\* C3 witness: an EXCELENTE attempt with a violation was followed by a
\* second attempt, which passed and ended the loop after two calls
C3_Witness ==
    /\ pc = "devolver"
    /\ Len(historial_intentos) = 2
    /\ llamadas = 2
    /\ Puntuado(1)
    /\ historial_intentos[1].calidad = "EXCELENTE"
    /\ historial_intentos[1].errores > 0
    /\ Puntuado(2)
    /\ historial_intentos[2].errores = 0
    /\ historial_intentos[2].calidad = "BUENA"

\* C4: when the attempts are used up without an early pass, the controller
\* returns a result if and only if at least one attempt was parsed and
\* scored, whatever its score.
C4_MejorEsfuerzo ==
    (pc = "registrar" /\ ~ParoTemprano) =>
        ((\E n \in 1..Len(historial_intentos) : Puntuado(n)) <=> devuelto # None)

\* C5: a JSON object that is not five well-formed pairs is never scored,
\* never retained as the best attempt, and never makes the controller raise.
C5_MalformadoComoError ==
    /\ ultimo.tipo = "validado" => ~FaltaClave(FaqsDe(ultimo.faqs))
    /\ mejor_resultado # None => ~FaltaClave(FaqsDe(mejor_resultado.faqs))
    /\ pc # "KeyError"

\* C6: the batch is never aborted by a product, and when it ends every
\* processed product is in exactly one of resultados and errores.
C6_LoteCompleto ==
    /\ pc # "KeyError"
    /\ pc = "lote" => Len(resultados) + Len(errores) = idx
    /\ pc = "terminado" =>
          /\ idx = total_productos
          /\ Len(resultados) + Len(errores) = total_productos

\* C7's case: json.loads failed on attempts 1 and 2, and attempt 3 gave
\* five well-formed pairs of tier EXCELENTE or BUENA
C7_Caso ==
    /\ Len(historial_intentos) = 3
    /\ Fallo(1, "json")
    /\ Fallo(2, "json")
    /\ Puntuado(3)
    /\ ultimo.tipo = "validado"
    /\ ~FaltaClave(FaqsDe(ultimo.faqs))
    /\ ultimo.metricas.calidad_general \in {"EXCELENTE", "BUENA"}

\* C7: with malformed JSON on attempts 1 and 2 and a valid high-scoring FAQ
\* set on attempt 3, the controller returns the attempt-3 set with
\* _intentos = 3 and does not fail the product.
C7_TercerIntento ==
    (pc \in {"registrar", "KeyError"} /\ C7_Caso) =>
        /\ pc = "registrar"
        /\ devuelto # None
        /\ devuelto._intentos = 3
        /\ devuelto.faqs = ultimo.faqs
        /\ devuelto._puntuacion = ultimo.metricas.puntuacion_total

\* C7 witness: the controller has returned in that case
C7_Witness == pc = "registrar" /\ C7_Caso /\ devuelto # None

(***************************************************************************)
(* Scorer: properties                                                      *)
(***************************************************************************)
\* T, the sum of the five per-pair scores of the verdict
SumaPares ==
    veredicto.detalle_faqs[1].puntuacion + veredicto.detalle_faqs[2].puntuacion
    + veredicto.detalle_faqs[3].puntuacion + veredicto.detalle_faqs[4].puntuacion
    + veredicto.detalle_faqs[5].puntuacion

\* C8: with T the sum of the five per-pair scores and T/5 the mean, the
\* tier is EXCELENTE iff T/5 >= 8, BUENA iff 6 <= T/5 < 8, ACEPTABLE iff
\* 4 <= T/5 < 6 and INSUFICIENTE otherwise, and passed is true iff there is
\* no violation and T/5 >= 5.
C8_Niveles ==
    pc = "puntuado" =>
        /\ veredicto.puntuacion_total = SumaPares
        /\ veredicto.calidad_general = "EXCELENTE" <=> SumaPares >= 40
        /\ veredicto.calidad_general = "BUENA" <=> (30 <= SumaPares /\ SumaPares < 40)
        /\ veredicto.calidad_general = "ACEPTABLE" <=> (20 <= SumaPares /\ SumaPares < 30)
        /\ veredicto.calidad_general = "INSUFICIENTE" <=> SumaPares < 20
        /\ veredicto.es_valido <=> (veredicto.errores = << >> /\ SumaPares >= 25)

\* C8 witness: a set with no violation whose mean is exactly 5 passes with
\* tier ACEPTABLE
C8_Witness ==
    /\ pc = "puntuado"
    /\ SumaPares = 25
    /\ veredicto.errores = << >>
    /\ veredicto.calidad_general = "ACEPTABLE"
    /\ veredicto.es_valido

\* pair i has an answer of 120 characters with a number and a unit
C9_Caso(i) ==
    /\ veredicto.detalle_faqs[i].longitud_respuesta = 120
    /\ veredicto.detalle_faqs[i].tiene_datos

\* the too-short violation of pair i is recorded
C9_Violacion(i) ==
    \E n \in 1..Len(veredicto.errores) :
        veredicto.errores[n] = [faq |-> i, error |-> "respuesta_muy_corta", chars |-> 120]

\* C9 as stated: for a pair whose answer has 120 characters and a number
\* with a unit, the too-short violation is recorded and the tier of the set
\* is not EXCELENTE.
C9_NoExcelente ==
    pc = "puntuado" =>
        \A i \in 1..5 :
            C9_Caso(i) => C9_Violacion(i) /\ veredicto.calidad_general # "EXCELENTE"

\* C9 amended: for such a pair the too-short violation is recorded and the
\* set does not pass; the tier follows from the mean alone.
C9_NoPasa ==
    pc = "puntuado" =>
        \A i \in 1..5 :
            C9_Caso(i) =>
                /\ C9_Violacion(i)
                /\ ~veredicto.es_valido
                /\ veredicto.calidad_general = CalidadGeneral(SumaPares)

\* C9 witness: a set of tier EXCELENTE with such a pair
C9_Witness ==
    /\ pc = "puntuado"
    /\ \E i \in 1..5 : C9_Caso(i) /\ C9_Violacion(i)
    /\ veredicto.calidad_general = "EXCELENTE"

\* texto with every occurrence of palabra, in any case, replaced by filler
\* characters: the same answer without that word
SinPalabra(texto, palabra) ==
    LET baja == Lower(texto)
        Cubierto(k) ==
            \E j \in 1..Len(texto) :
                j <= k /\ k < j + Len(palabra) /\ EnPosicion(palabra, baja, j)
    IN  SubSeq([k \in 1..Len(texto) |-> IF Cubierto(k) THEN "x" ELSE texto[k]],
               1, Len(texto))

\* the banned words of the list found in texto
Encontradas(texto) ==
    { n \in 1..Len(palabras_prohibidas) : Contiene(palabras_prohibidas[n], Lower(texto)) }

\* the violations recorded for pair i and banned word n
ViolacionesVaga(i, n) ==
    { m \in 1..Len(veredicto.errores) :
          veredicto.errores[m] =
              [faq |-> i, error |-> "palabra_vaga", palabra |-> palabras_prohibidas[n]] }

\* the score of pair i when its answer is replaced by texto
PuntuacionCon(i, texto) ==
    LET faqs == FaqsDe(entrada)
    IN  ValidarFAQ(i, [faqs EXCEPT ![i] = [faqs[i] EXCEPT !.respuesta = texto]]).detalle.puntuacion

\* the pairs of the set under the scorer that have an answer
ConRespuesta == { i \in 1..5 : entrada[i].clave /\ entrada[i].base # Ausente }

\* C10 as stated: each banned word found in an answer gives one violation
\* and a pair score exactly 1 below that of the same answer without it.
C10_UnPuntoPorPalabra ==
    pc = "puntuado" =>
        \A i \in ConRespuesta :
            LET r == TextoRespuesta(entrada[i])
            IN  \A n \in Encontradas(r) :
                    /\ Cardinality(ViolacionesVaga(i, n)) = 1
                    /\ veredicto.detalle_faqs[i].puntuacion
                          = PuntuacionCon(i, SinPalabra(r, palabras_prohibidas[n])) - 1

\* C10 amended: each entry of the banned list found in an answer gives one
\* violation and takes one point; the score is below that of the same
\* answer without the word by the number of list entries that go with it
\* (two for "etcétera", which contains "etc").
C10_UnPuntoPorEntrada ==
    pc = "puntuado" =>
        \A i \in ConRespuesta :
            LET r == TextoRespuesta(entrada[i])
            IN  \A n \in Encontradas(r) :
                    LET sin == SinPalabra(r, palabras_prohibidas[n])
                        idas == Encontradas(r) \ Encontradas(sin)
                    IN  /\ Cardinality(ViolacionesVaga(i, n)) = 1
                        /\ n \in idas
                        /\ Cardinality(idas) = IF n \in {3, 4} /\ 4 \in Encontradas(r) THEN 2 ELSE 1
                        /\ veredicto.detalle_faqs[i].puntuacion
                              = PuntuacionCon(i, sin) - Cardinality(idas)

\* C10 witness: an answer with "etcétera" has the violations of "etc" and
\* of "etcétera"
C10_Witness ==
    /\ pc = "puntuado"
    /\ \E i \in ConRespuesta :
          /\ Encontradas(TextoRespuesta(entrada[i])) = {3, 4}
          /\ Cardinality(ViolacionesVaga(i, 3)) = 1
          /\ Cardinality(ViolacionesVaga(i, 4)) = 1

(***************************************************************************)
(* Category selection: properties                                          *)
(***************************************************************************)
\* the priority categories of the product under way, and those selected
C12_Prioritarias == Elementos(prioridades(producto_actual, analisis))
C12_Elegidas == Elementos(categorias)

\* the list holds exactly five pairwise-distinct names of the eight
C12_CincoDeOcho ==
    /\ Len(categorias) = 5
    /\ Cardinality(C12_Elegidas) = 5
    /\ C12_Elegidas \subseteq Elementos(todas_categorias)

\* C12 as stated: seleccionar_categorias_aleatorias returns exactly five
\* pairwise-distinct categories of the fixed eight, and every priority
\* category derived from the profile is in the list.
C12_PrioritariasIncluidas ==
    pc = "seleccionadas" => C12_CincoDeOcho /\ C12_Prioritarias \subseteq C12_Elegidas

\* C12 amended: seleccionar_categorias_aleatorias returns exactly five
\* pairwise-distinct categories of the fixed eight, and at least
\* min(2, n) of the n priority categories are in the list.
C12_DosPrioritarias ==
    pc = "seleccionadas" =>
        /\ C12_CincoDeOcho
        /\ Cardinality(C12_Prioritarias \cap C12_Elegidas)
              >= (IF Cardinality(C12_Prioritarias) < 2 THEN Cardinality(C12_Prioritarias) ELSE 2)

\* a product with five priority categories, of which the list holds two
C12_Witness ==
    /\ pc = "seleccionadas"
    /\ Cardinality(C12_Prioritarias) = 5
    /\ Cardinality(C12_Prioritarias \cap C12_Elegidas) = 2

(***************************************************************************)
(* Retry controller: failures, request parameters                          *)
(***************************************************************************)
\* the attempt numbered intento ended in the except clause and is the last
\* entry of the attempt history, with its error
C13_Registrado ==
    /\ Len(historial_intentos) = intento
    /\ "error" \in DOMAIN historial_intentos[intento]
    /\ historial_intentos[intento].error = ultimo.error

C14_Pares ==
    { par \in (1..Len(registro)) \X (1..Len(registro)) :
        /\ registro[par[1]].producto = registro[par[2]].producto
        /\ par[1] < par[2] }

\* C14: every numeric generation parameter passed to the external call
\* (temperature, presence_penalty, frequency_penalty, top_p, max_tokens)
\* is non-decreasing in the attempt index: for attempts i < j of the same
\* product, each parameter's value at j is at least its value at i.
C14_ParametrosNoDecrecen ==
    \A par \in C14_Pares :
        /\ registro[par[1]].peticion.temperature <= registro[par[2]].peticion.temperature
        /\ registro[par[1]].peticion.presence_penalty <= registro[par[2]].peticion.presence_penalty
        /\ registro[par[1]].peticion.frequency_penalty <= registro[par[2]].peticion.frequency_penalty
        /\ registro[par[1]].peticion.top_p <= registro[par[2]].peticion.top_p
        /\ registro[par[1]].peticion.max_tokens <= registro[par[2]].peticion.max_tokens

\* three calls for one product, the temperature of the third above that of
\* the first
C14_Witness ==
    /\ Len(registro) = max_intentos
    /\ registro[1].producto = registro[3].producto
    /\ registro[1].peticion.temperature < registro[3].peticion.temperature

(***************************************************************************)
(* Analysis and enrichment of the product: properties                      *)
(***************************************************************************)
\* the controller was entered on the row of the catalog
C15_Entrado == producto_actual # None

\* the states in which a call made before the first attempt has raised
Excepciones == { "TypeError", "ValueError", "AttributeError" }

\* the price cell of the row, and the precio_alto of the claim: false for
\* a missing, empty or unparsable price, price > 50 for a parsable one
C15_Precio == GetCampo(df[1], "Variant Price", Falta)
C15_PrecioAltoEsperado ==
    /\ Truthy(C15_Precio)
    /\ Float(C15_Precio).ok
    /\ MayorQue(Float(C15_Precio), 50)

\* C15: analizar_producto_profundo never fails on the price field: for a
\* missing, empty or unparsable 'Variant Price' it returns a Feature
\* Profile with precio_alto = false, and for a parsable price it returns
\* precio_alto = (price > 50).
C15_PrecioNuncaFalla ==
    (C15_Entrado /\ GetCampo(df[1], "Title", Str(<< >>)).tipo = "str") =>
        /\ pc # "ValueError"
        /\ analisis # None
        /\ analisis.precio_alto = C15_PrecioAltoEsperado

\* wherever analizar_producto_profundo returns, precio_alto is the value
\* the claim gives
C15_PrecioAltoSiDevuelve ==
    (C15_Entrado /\ analisis # None) => analisis.precio_alto = C15_PrecioAltoEsperado

\* the description of the row is absent or under 50 characters
C16_DescripcionCorta == Len(obtener_descripcion_producto(df[1])) < 50

\* the price cell is absent, empty or one float() reads
C16_PrecioLegible == ~Truthy(C15_Precio) \/ Float(C15_Precio).ok

\* C16: a product whose description is absent or shorter than 50
\* characters never causes a failure before generation: whatever title,
\* tags, vendor and price hold, present, absent or empty, the enrichment
\* completes and the controller reaches the first attempt of the loop.
C16_DescripcionCortaNoFalla ==
    (C15_Entrado /\ C16_DescripcionCorta /\ C16_PrecioLegible) => pc \notin Excepciones

\* the title of the row is a text that contains "sérum"
C17_TituloSerum ==
    /\ GetCampo(df[1], "Title", Str(<< >>)).tipo = "str"
    /\ Contiene(<<"s","é","r","u","m">>, Lower(GetCampo(df[1], "Title", Str(<< >>)).v))

\* the text holds both sentences of the sérum boilerplate
C17_ConFrases(texto) ==
    \A n \in 1..Len(info_por_tipo[1].frases) : Contiene(info_por_tipo[1].frases[n], texto)

\* the description of the product and of every prompt built for it holds
\* the sérum boilerplate
C17_FrasesEnTodo ==
    /\ C17_ConFrases(obtener_descripcion_producto(producto_actual))
    /\ \A n \in 1..Len(registro) : C17_ConFrases(registro[n].peticion.prompt.descripcion)

\* C17: for a product whose description is under 50 characters and whose
\* title contains "sérum", the sérum boilerplate sentences are added to
\* the description before any prompt is built, and the prompt of every
\* attempt of that product contains them, whichever description column
\* the record uses.
C17_SerumEnCadaPrompt ==
    (C15_Entrado /\ C16_DescripcionCorta /\ C17_TituloSerum) =>
        /\ pc \notin Excepciones
        /\ C17_FrasesEnTodo

\* wherever the analysis and the enrichment return, the description and
\* every prompt hold the sérum boilerplate
C17_SerumSiNoFalla ==
    (C15_Entrado /\ C16_DescripcionCorta /\ C17_TituloSerum /\ pc \notin Excepciones) =>
        C17_FrasesEnTodo

\* three prompts were built for a sérum whose short description is in the
\* column Description alone
C17_TresPrompts ==
    /\ C16_DescripcionCorta
    /\ C17_TituloSerum
    /\ ~Tiene(df[1], "Body HTML")
    /\ Tiene(df[1], "Description")
    /\ Len(registro) = max_intentos

(***************************************************************************)
(* The batch: order of the calls, confirmation, files                      *)
(***************************************************************************)
\* the products whose outcome the batch has recorded
C18_Registrados == Len(resultados) + Len(errores)

\* the entries of the call log that belong to the product under way
C18_Propias == { n \in 1..Len(registro) : registro[n].producto = idx + 1 }

\* the logged call n returned the FAQ set and earned the score of the
\* result the controller returned
C18_Origen(n) ==
    /\ registro[n].intento = devuelto._intentos
    /\ registro[n].respuesta.tipo = "texto"
    /\ Parsear(registro[n].respuesta).ok
    /\ Parsear(registro[n].respuesta).pares = devuelto.faqs
    /\ Validar(devuelto.faqs).puntuacion_total = devuelto._puntuacion

\* C18: processing is strictly sequential and retry state is per product:
\* every generation call for product k+1 happens after product k has
\* reached its terminal outcome, the attempt index, Best-So-Far and the
\* attempt history start fresh for each product, and a result returned
\* for a product holds only FAQ text and scores of that product's own
\* attempts.
C18_Secuencial ==
    /\ \A n \in 1..Len(registro) :
          /\ registro[n].producto <= C18_Registrados + 1
          /\ n > 1 => registro[n - 1].producto <= registro[n].producto
    /\ (pc = "intentar" /\ intento = 0) =>
          /\ mejor_resultado = None
          /\ mejor_puntuacion = 0
          /\ historial_intentos = << >>
    /\ (pc = "registrar" /\ devuelto # None) =>
          /\ Len(devuelto._historial) = Cardinality(C18_Propias)
          /\ \E n \in C18_Propias : C18_Origen(n)

\* the second product returns a result that is not the one of the first
C18_Witness ==
    /\ pc = "registrar"
    /\ idx = 1
    /\ Len(resultados) = 1
    /\ devuelto # None
    /\ devuelto.faqs # resultados[1].faqs

\* the confirmation has been answered
C19_Respondido == pc \notin { "analizar", "confirmar", "ZeroDivisionError" }

\* C19: if the answer to the confirmation prompt is anything other than
\* 's' or 'S', the run aborts with no side effects: no generation call is
\* made for any product, no CSV or report file is written, and no product
\* record is built or modified.
C19_NoSinEfectos ==
    (C19_Respondido /\ confirmacion \notin { << "s" >>, << "S" >> }) =>
        /\ pc = "cancelado"
        /\ llamadas = 0
        /\ registro = << >>
        /\ archivos = << >>
        /\ producto_actual = None
        /\ resultados = << >>
        /\ errores = << >>

\* the answer was n and the run was cancelled
C19_Witness == pc = "cancelado" /\ confirmacion = << "n" >>

\* the Handle of every record of a list
C20_Handles(lista) == { lista[n].Handle : n \in 1..Len(lista) }

\* C20: the primary CSV has exactly one row per successfully completed
\* product and no failed product; each row holds the product identifier
\* and the question/answer columns only, with the fields _calidad,
\* _intentos, _puntuacion and _historial removed, while the result records
\* handed to the text report still carry those fields unchanged.
C20_FilasLimpias ==
    (pc = "terminado" /\ archivos # << >>) =>
        /\ archivos[1].archivo = "faqs_PREMIUM"
        /\ Len(archivos[1].filas) = Len(resultados)
        /\ \A n \in 1..Len(resultados) :
              /\ DOMAIN archivos[1].filas[n] = { "Handle", "faqs" }
              /\ archivos[1].filas[n].Handle = resultados[n].Handle
              /\ archivos[1].filas[n].faqs = resultados[n].faqs
        /\ C20_Handles(archivos[1].filas) \cap C20_Handles(errores) = {}
        /\ Len(resultados) + Len(errores) = total_productos
        /\ archivos[2].archivo = "REPORTE_COMPLETO"
        /\ archivos[2].resultados = resultados
        /\ \A n \in 1..Len(resultados) :
              { "_calidad", "_intentos", "_puntuacion", "_historial" }
                  \subseteq DOMAIN archivos[2].resultados[n]

\* a batch of two products, one with a result and one failed, has written
\* its files
C20_Witness ==
    /\ pc = "terminado"
    /\ Len(resultados) = 1
    /\ Len(errores) = 1
    /\ Len(archivos) = 3

(***************************************************************************)
(* C21: a well-formed pair                                                 *)
(***************************************************************************)
\* the violations recorded for pair i
C21_Violaciones(i) ==
    { m \in 1..Len(veredicto.errores) : veredicto.errores[m].faq = i }

\* pair i of the set under the scorer is the pair of the statement: the
\* question starts with "¿", ends with "?" and has 5 to 7 words; the answer
\* has 250 characters, at least 3 sentence terminators, "20%", "aplica" and
\* "mejora", and no banned word
C21_Caso(i) ==
    /\ i \in ConRespuesta
    /\ entrada[i].p # Ausente
    /\ LET q == TextoPregunta(entrada[i].p)
           r == TextoRespuesta(entrada[i])
           terminadores == { k \in 1..Len(r) : r[k] \in {".", "!", "?"} }
       IN  /\ q[1] = "¿" /\ q[Len(q)] = "?"
           /\ NumPalabras(q) \in 5..7
           /\ Len(r) = 250
           /\ Cardinality(terminadores) >= 3
           /\ Contiene(<<"2","0","%">>, Lower(r))
           /\ Contiene(<<"a","p","l","i","c","a">>, Lower(r))
           /\ Contiene(<<"m","e","j","o","r","a">>, Lower(r))
           /\ Encontradas(r) = {}

\* C21: a pair whose question starts with "¿", ends with "?" and has 5 to 7
\* words, and whose answer is 250 characters long with at least 3 sentence
\* terminators, a number and unit ("20%"), an instruction verb ("aplica"),
\* a benefit verb ("mejora") and no banned word, has no violation and a
\* pair score of at least 7.
C21_ParBienFormado ==
    pc = "puntuado" =>
        \A i \in 1..5 :
            C21_Caso(i) =>
                /\ C21_Violaciones(i) = {}
                /\ veredicto.detalle_faqs[i].puntuacion >= 7

\* C21 witness: the pair of the statement with a generic question and no
\* technical word has just the points the statement lists, 10, and another
\* pair of the same set has a violation
C21_Witness ==
    /\ pc = "puntuado"
    /\ \E i \in 1..5 :
          /\ C21_Caso(i)
          /\ C21_Violaciones(i) = {}
          /\ veredicto.detalle_faqs[i].puntuacion = 10
    /\ veredicto.errores # << >>

(***************************************************************************)
(* C22: the answer-length axis                                             *)
(***************************************************************************)
\* the length of the answer of pair i
C22_Longitud(i) == Len(TextoRespuesta(entrada[i]))

\* what pair i earned on the answer-length axis: its score less the points
\* of the other axes
C22_PuntosEje(i) ==
    LET pregunta == Get(FaqsDe(entrada)[i], "pregunta", StrVacio)
        respuesta == TextoRespuesta(entrada[i])
        baja == Lower(respuesta)
    IN  veredicto.detalle_faqs[i].puntuacion
        - ( PuntosFormato(pregunta)
            + PuntosLongitudPregunta(NumPalabras(pregunta))
            + PuntosEspecificidad(pregunta)
            + PuntosProhibidas(ProhibidasEn(baja))
            + PuntosDatos(TieneDatosEspecificos(baja))
            + PuntosTecnicas(TieneTecnicas(baja))
            + PuntosInstrucciones(TieneInstrucciones(baja))
            + PuntosBeneficios(TieneBeneficios(baja))
            + PuntosOraciones(respuesta) )

\* the too-short and the too-long violations of pair i
C22_MuyCorta(i) ==
    \E m \in 1..Len(veredicto.errores) :
        veredicto.errores[m] =
            [faq |-> i, error |-> "respuesta_muy_corta", chars |-> C22_Longitud(i)]
C22_MuyLarga(i) ==
    \E m \in 1..Len(veredicto.errores) :
        veredicto.errores[m] =
            [faq |-> i, error |-> "respuesta_muy_larga", chars |-> C22_Longitud(i)]

\* C22 as stated: for every answer length L, L < 150 gives a violation and
\* 0 points; 150 <= L < 200 gives +2; 200 <= L <= 300 gives +3; L > 350
\* gives a too-long violation besides the band points; and no length earns
\* points on this axis other than through those bands.
C22_SoloBandas ==
    pc = "puntuado" =>
        \A i \in ConRespuesta :
            /\ C22_MuyCorta(i) <=> C22_Longitud(i) < 150
            /\ C22_MuyLarga(i) <=> C22_Longitud(i) > 350
            /\ C22_PuntosEje(i) =
                   IF C22_Longitud(i) < 150 THEN 0
                   ELSE IF C22_Longitud(i) < 200 THEN 2
                   ELSE IF C22_Longitud(i) <= 300 THEN 3
                   ELSE 0

\* C22 amended: the bands are as stated, and every length above 300 earns
\* +1 on this axis, with the too-long violation besides when L > 350.
C22_BandasYResto ==
    pc = "puntuado" =>
        \A i \in ConRespuesta :
            /\ C22_MuyCorta(i) <=> C22_Longitud(i) < 150
            /\ C22_MuyLarga(i) <=> C22_Longitud(i) > 350
            /\ C22_PuntosEje(i) =
                   IF C22_Longitud(i) < 150 THEN 0
                   ELSE IF C22_Longitud(i) < 200 THEN 2
                   ELSE IF C22_Longitud(i) <= 300 THEN 3
                   ELSE 1

\* C22 witness: an answer of 351 characters has the too-long violation and
\* one point on the axis
C22_Witness ==
    /\ pc = "puntuado"
    /\ \E i \in ConRespuesta :
          /\ C22_Longitud(i) = 351
          /\ C22_MuyLarga(i)
          /\ ~C22_MuyCorta(i)
          /\ C22_PuntosEje(i) = 1

(***************************************************************************)
(* C23: enrichment of a short description                                  *)
(***************************************************************************)
\* the description the controller read from the row, and the one it left in
\* the record handed to the prompt
C23_Descripcion == obtener_descripcion_producto(df[1])
C23_Enriquecida == producto_actual[ColumnaEscrita(df[1])].v

\* what was appended to the description, and the sentences in it (each
\* generic sentence ends in its only full stop)
C23_Anadido == SubSeq(C23_Enriquecida, Len(C23_Descripcion) + 1, Len(C23_Enriquecida))
C23_Frases == Cardinality({ k \in 1..Len(C23_Anadido) : C23_Anadido[k] = "." })

\* the row has a short description, a title the batch loop can print and a
\* price the analysis can read
C23_Caso ==
    /\ C15_Entrado
    /\ C16_DescripcionCorta
    /\ C16_PrecioLegible
    /\ GetCampo(df[1], "Title", Str(<< >>)).tipo = "str"

\* C23: whenever the available description is under 50 characters,
\* enrichment appends between 1 and 3 generic sentences to it, never zero
\* and never more than 3, and keeps the original description as a prefix
\* of the result.
C23_UnaATresFrases ==
    C23_Caso =>
        /\ pc \notin Excepciones
        /\ Len(C23_Enriquecida) >= Len(C23_Descripcion)
        /\ SubSeq(C23_Enriquecida, 1, Len(C23_Descripcion)) = C23_Descripcion
        /\ C23_Frases \in 1..MaxLineasAdicionales

(***************************************************************************)
(* C24: the rows the batch processes                                       *)
(***************************************************************************)
\* the rows whose outcome is in lista (resultados or errores), in the order
\* of the list
C24_Filas(lista) ==
    SubSeq([n \in 1..Len(lista) |->
               CHOOSE k \in 1..Len(df) : df[k]["Handle"] = lista[n].Handle],
           1, Len(lista))

C24_Creciente(filas) == \A n \in 1..Len(filas) : n > 1 => filas[n - 1] < filas[n]

\* the row the generation calls of the log were made for: row idx + 1
\* while its outcome is not recorded, row idx afterwards
C24_FilaEnviada == IF pc \in { "lote", "terminado" } THEN idx ELSE idx + 1

\* the rows sent to the generation API so far
C24_Enviadas == IF registro = << >> THEN 1..idx ELSE 1..C24_FilaEnviada

\* rows are taken in catalog order, each once, and none beyond the first
\* min(limite, len(df)): the outcomes recorded are those of rows 1..idx,
\* and every generation call of the log is for the row under way
C24_EnOrden ==
    /\ idx <= total_productos
    /\ C24_Creciente(C24_Filas(resultados)) /\ C24_Creciente(C24_Filas(errores))
    /\ Elementos(C24_Filas(resultados)) \cup Elementos(C24_Filas(errores)) = 1..idx
    /\ Len(resultados) + Len(errores) = idx
    /\ \A n \in 1..Len(registro) :
          /\ registro[n].producto = C24_FilaEnviada
          /\ C24_FilaEnviada <= total_productos
          /\ producto_actual = df[C24_FilaEnviada]

\* the run is over: the batch returned, or an exception ended it
C24_Parado == pc \in { "terminado", "KeyError" }

\* C24: for a catalog of N rows and a limit L, the batch processes exactly
\* the first min(L, N) rows, each exactly once and in catalog row order,
\* and no row at index >= min(L, N) is ever sent to the generation API.
C24_PrimerasFilas ==
    /\ C24_EnOrden
    /\ C24_Parado => C24_Enviadas = 1..total_productos

(***************************************************************************)
(* C25: a response inside a code fence                                     *)
(***************************************************************************)
\* the response is a JSON object of five pairs between an opening fence,
\* with or without the json tag, and a closing fence
C25_ConValla(r) ==
    /\ r.tipo = "texto"
    /\ r.prefijo \in { "fence_json", "fence" }
    /\ r.sufijo = "fence"
    /\ r.json = "objeto"
    /\ ~FaltaClave(FaqsDe(r.pares))

\* attempt n was scored as the same JSON object without a fence is
C25_ComoSinValla(n) ==
    /\ Puntuado(n)
    /\ historial_intentos[n].puntuacion = Validar(registro[n].respuesta.pares).puntuacion_total
    /\ historial_intentos[n].calidad = Validar(registro[n].respuesta.pares).calidad_general

\* C25: a response that is a valid five-pair JSON object wrapped in a code
\* fence, the opening fence with or without the json tag, is stripped of
\* the fence and parsed, and gives the same FAQ set and score as the same
\* JSON returned without a fence.
C25_VallaTolerada ==
    \A n \in 1..Len(registro) :
        C25_ConValla(registro[n].respuesta) => C25_ComoSinValla(n)

(***************************************************************************)
(* C26: priority categories in the selection                               *)
(***************************************************************************)
\* C26: the list returned by seleccionar_categorias_aleatorias holds at
\* most 2 of the priority categories derived for the product, for every
\* profile and every outcome of the random choices.
C26_MaximoDosPrioritarias ==
    pc = "seleccionadas" => Cardinality(C12_Prioritarias \cap C12_Elegidas) <= 2

(***************************************************************************)
(* Retry controller: what is returned                                      *)
(***************************************************************************)
\* C27: whenever the retry loop stops early on a passing attempt, the FAQ
\* set returned for the product is the one of that attempt: _intentos is
\* the index of the passing attempt and the set returned has no violation
\* and tier EXCELENTE or BUENA, whatever earlier attempts scored.
C27_DevuelveElQuePasa ==
    (pc = "registrar" /\ ParoTemprano) =>
        /\ devuelto # None
        /\ devuelto._intentos = Len(historial_intentos)
        /\ devuelto.faqs = ultimo.faqs
        /\ Validar(devuelto.faqs).errores = << >>
        /\ devuelto._calidad \in { "EXCELENTE", "BUENA" }

\* the attempts of the product that were parsed and scored
C28_Puntuados == { n \in 1..Len(historial_intentos) : Puntuado(n) }

\* C28: whenever a result is returned, its _puntuacion is the maximum mean
\* score over the attempts of the product that parsed, its FAQ text and
\* _calidad come from the same attempt, and _intentos is the 1-based index
\* of the earliest attempt that reached that maximum: a later attempt with
\* an equal score does not replace Best-So-Far.
C28_PrimerMaximo ==
    (pc = "registrar" /\ devuelto # None) =>
        /\ devuelto._intentos \in C28_Puntuados
        /\ historial_intentos[devuelto._intentos].puntuacion = devuelto._puntuacion
        /\ historial_intentos[devuelto._intentos].calidad = devuelto._calidad
        /\ Parsear(registro[devuelto._intentos].respuesta).pares = devuelto.faqs
        /\ \A n \in C28_Puntuados :
              /\ historial_intentos[n].puntuacion <= devuelto._puntuacion
              /\ n < devuelto._intentos =>
                    historial_intentos[n].puntuacion < devuelto._puntuacion

\* C28 witness: the first and the third attempt tie at the maximum, the
\* second scored less, and the result returned is the one of the first
C28_Witness ==
    /\ pc = "registrar"
    /\ devuelto # None
    /\ C28_Puntuados = 1..3
    /\ devuelto._intentos = 1
    /\ historial_intentos[2].puntuacion < devuelto._puntuacion
    /\ historial_intentos[3].puntuacion = devuelto._puntuacion

(***************************************************************************)
(* The batch: what it returns                                              *)
(***************************************************************************)
\* the batch has returned to the main script
C29_Devuelto == retorno # SinRetorno

\* C29: on every return path of procesar_productos_premium_mejorado
\* (confirmation declined, all products failed, at least one product
\* succeeded) the value returned is a triple (results, errors, report
\* file) that the three-way unpacking of the main script accepts, so the
\* run ends without an unhandled exception after a declined confirmation.
C29_SiempreTriple == C29_Devuelto => Desempaqueta(retorno)

\* C30: when the number of products to process is zero (empty catalog or
\* limit 0), procesar_productos_premium_mejorado completes without
\* raising: it makes no generation call, writes no file, and returns empty
\* result and error lists.
C30_CeroProductos ==
    total_productos = 0 =>
        /\ pc # "ZeroDivisionError"
        /\ llamadas = 0
        /\ registro = << >>
        /\ archivos = << >>
        /\ C29_Devuelto =>
              /\ Desempaqueta(retorno)
              /\ retorno.v[1] = << >>
              /\ retorno.v[2] = << >>

====
